---- MODULE Spec2Model ----
(***************************************************************************)
(* AI batch processing orchestrator (products/ai_runner.py), the provider  *)
(* gateway's response normalization (products/ai_service.py) and the       *)
(* operator actions on AI batches (products/views.py).                     *)
(*                                                                         *)
(* The specifications share the variables below:                           *)
(*   SpecQueue  process_batch called from concurrent threads, the batch    *)
(*              body reduced to "returns" or "raises";                     *)
(*   SpecParse  _parse_annotations applied to bounded inputs;              *)
(*   SpecBatch  one AI batch: process_batch with the full batch body, the  *)
(*              assignment tasks, the item workers and the operator        *)
(*              actions pause and resume;                                  *)
(*   SpecRetry  SpecBatch, with retry_failed_ai, for providers configured  *)
(*              for one attempt per item;                                  *)
(*   SpecOps    the batch of SpecRetry with cancel and resume_ai_batch     *)
(*              in place of retry_failed_ai;                               *)
(*   SpecRetryAny  the batch of SpecRetry with both outcomes of            *)
(*              retry_failed_ai: the retry and the answer that nothing is  *)
(*              to be retried;                                             *)
(*   SpecProviders  the batch of SpecRetry while an admin activates and    *)
(*              deactivates its providers;                                 *)
(*   SpecCrash  the batch of SpecRetry with assignment tasks that may      *)
(*              raise;                                                     *)
(*   SpecRetryTwice  one AI batch with retry_failed_ai, for providers      *)
(*              configured for two attempts per item;                      *)
(*   SpecQueueFair  SpecQueue with calls made again and again, under       *)
(*              fair scheduling of the threads and of the lock;            *)
(*   SpecAnnotate  the run of a one-item batch with the provider call      *)
(*              taken apart into the gateway's answer and the storing of   *)
(*              the annotations;                                           *)
(*   SpecPauseBatch  a batch of one provider with cancel, pause_ai_batch   *)
(*              and resume_ai_batch;                                       *)
(*   SpecRunFair  an undisturbed run of one AI batch under fair            *)
(*              scheduling.                                                *)
(***************************************************************************)
EXTENDS Integers, Sequences, FiniteSets, TLC

\* ---------------------------------------------------------------- bounds
NThreads == 3
MaxRetryOps == 1
NBatches == 2
MaxAttrs == 2
MaxItems == 2

\* ------------------------------------------------------ program constants
DefaultMaxRetries == 3
DefaultMaxThreads == 50

Threads == 1..NThreads
Batches == 1..NBatches
Providers == 1..MaxItems
Products == 1..MaxItems
Items == Providers \X Products
AttrIds == 1..MaxAttrs

VARIABLES
    \* process_batch: module globals and each calling thread
    pc,                 \* thread -> position in process_batch
    arg,                \* thread -> batch_id it was called with (0: not called)
    BATCH_QUEUE,        \* _BATCH_QUEUE, a list of batch ids
    BATCH_PROCESS_LOCK, \* holder of _BATCH_PROCESS_LOCK (0: free)
    outcome,            \* thread -> how the body / the call ended
    sawQueued,          \* thread -> batch_id was in _BATCH_QUEUE at the call
    \* _parse_annotations
    attributes,         \* the requested attribute list
    annotations,        \* json.loads(result_text): the parsed response
    normalized,         \* the returned map
    parsePc,            \* "input" before the call, "returned" after it
    \* the store
    is_paused,          \* AIProcessingControl.is_paused
    providerActive,     \* provider -> AIProvider.is_active
    self_providers,     \* thread -> self.providers of the AIBatchProcessor the
                        \* thread constructed: the providers active then
    config,             \* provider -> AIProvider.config
    assignments,        \* the providers that have an assignment in the batch
    batch_items,        \* the products of the batch
    asgStatus,          \* provider -> BatchAssignment.status
    asgProgress,        \* provider -> BatchAssignment.progress, in 1/100 percent
    itemStatus,         \* (provider, product) -> BatchAssignmentItem.status
    prodStatus,         \* product -> BaseProduct.processing_status
    runs,               \* (provider, product) -> its AIProcessingRun rows, oldest first
    flogs,              \* (provider, product) -> its AIProviderFailureLog rows
    \* _process_batch_internal
    bodyPc,             \* "idle" or "tasks"
    pause_event,        \* the threading.Event of the running body
    asgMem,             \* provider -> status of the in-memory BatchAssignment
    \* _process_assignment, one task per assignment
    taskPc,             \* provider -> position in _process_assignment
    todo,               \* provider -> assignment_items, the listed item ids
    nextIdx,            \* provider -> index of the next item to dispatch
    prodSnap,           \* (provider, product) -> processing_status of the
                        \* product object loaded with the item
    collected,          \* provider -> futures as_completed has yielded
    \* _process_assignment_item, one worker per dispatched item
    wPc,                \* (provider, product) -> position of the worker
    attempt,            \* (provider, product) -> attempt
    slept,              \* (provider, product) -> the backoff sleeps of the
                        \* item's last processor, in order
    \* history
    everPaused,         \* the pause flag was raised at some time
    lastBody,           \* how the latest batch body ended
    inflightAtPause,    \* while the pause flag is raised: the items whose
                        \* provider call was in flight when it was raised
    retryFrame,         \* provider -> status and progress of its assignment at
                        \* the latest retry_failed_ai, if it had no unresolved
                        \* failure log then (<<>> otherwise)
    bodyFrame,          \* while a batch body runs with the pause flag raised
                        \* since its start: provider -> status of its
                        \* assignment at that start (<<>> otherwise)
    cancelledInBody,    \* the latest operator request on the batch was a
                        \* cancel made while the latest body was running
    \* the store, continued
    started_at,         \* (provider, product) -> BatchAssignmentItem.started_at
                        \* is set (FALSE: None)
    completed_at,       \* (provider, product) -> BatchAssignmentItem.completed_at
                        \* is set (FALSE: None)
    product_annotations,\* (provider, product) -> attribute id -> the values of
                        \* the ProductAnnotation rows with source_type "ai" and
                        \* that product, attribute and source_id, oldest first
    response            \* the message of the latest response of retry_failed_ai

qvars == <<pc, arg, BATCH_QUEUE, BATCH_PROCESS_LOCK, outcome, sawQueued>>
pvars == <<attributes, annotations, normalized, parsePc>>
cfgvars == <<providerActive, self_providers, config, assignments, batch_items>>
storevars == <<is_paused, asgStatus, asgProgress, itemStatus, prodStatus, runs, flogs>>
bodyvars == <<bodyPc, pause_event, asgMem>>
taskvars == <<taskPc, todo, nextIdx, prodSnap, collected>>
workvars == <<wPc, attempt, slept>>
histvars == <<everPaused, lastBody, inflightAtPause, retryFrame, bodyFrame,
              cancelledInBody>>
extvars == <<started_at, completed_at, product_annotations, response>>
bvars == <<cfgvars, storevars, bodyvars, taskvars, workvars, histvars, extvars>>
vars == <<qvars, pvars, bvars>>

\* ============================================================ sequences
InSeq(x, s) == \E k \in 1..Len(s) : s[k] = x

\* list.remove(x): drops the first occurrence
RECURSIVE RemoveFirst(_, _)
RemoveFirst(x, s) ==
    IF s = <<>> THEN <<>>
    ELSE IF Head(s) = x THEN Tail(s)
    ELSE <<Head(s)>> \o RemoveFirst(x, Tail(s))

\* ====================================================== process_batch
QInit ==
    /\ pc = [t \in Threads |-> "idle"]
    /\ arg = [t \in Threads |-> 0]
    /\ BATCH_QUEUE = <<>>
    /\ BATCH_PROCESS_LOCK = 0
    /\ outcome = [t \in Threads |-> "none"]
    /\ sawQueued = [t \in Threads |-> FALSE]

\* a duplicate call that takes the entry of the first submission with it
SubmitDuplicateDequeues(t, b) ==
    /\ pc[t] = "idle"
    /\ arg' = [arg EXCEPT ![t] = b]
    /\ sawQueued' = [sawQueued EXCEPT ![t] = InSeq(b, BATCH_QUEUE)]
    /\ IF InSeq(b, BATCH_QUEUE)
       THEN /\ pc' = [pc EXCEPT ![t] = "returned"]
            /\ outcome' = [outcome EXCEPT ![t] = "skipped"]
            /\ BATCH_QUEUE' = RemoveFirst(b, BATCH_QUEUE)
       ELSE /\ BATCH_QUEUE' = Append(BATCH_QUEUE, b)
            /\ pc' = [pc EXCEPT ![t] = "wait"]
            /\ UNCHANGED outcome
    /\ UNCHANGED BATCH_PROCESS_LOCK

\* ai_runner.py 63-68 with the duplicate test left out
SubmitNoDedupe(t, b) ==
    /\ pc[t] = "idle"
    /\ arg' = [arg EXCEPT ![t] = b]
    /\ sawQueued' = [sawQueued EXCEPT ![t] = InSeq(b, BATCH_QUEUE)]
    /\ BATCH_QUEUE' = Append(BATCH_QUEUE, b)
    /\ pc' = [pc EXCEPT ![t] = "wait"]
    /\ UNCHANGED <<BATCH_PROCESS_LOCK, outcome>>

\* with _QUEUE_LOCK: return if batch_id is queued, else append it
Submit(t, b) ==
    /\ pc[t] = "idle"
    /\ arg' = [arg EXCEPT ![t] = b]
    /\ sawQueued' = [sawQueued EXCEPT ![t] = InSeq(b, BATCH_QUEUE)]
    /\ IF InSeq(b, BATCH_QUEUE)
       THEN /\ pc' = [pc EXCEPT ![t] = "returned"]
            /\ outcome' = [outcome EXCEPT ![t] = "skipped"]
            /\ UNCHANGED BATCH_QUEUE
       ELSE /\ BATCH_QUEUE' = Append(BATCH_QUEUE, b)
            /\ pc' = [pc EXCEPT ![t] = "wait"]
            /\ UNCHANGED outcome
    /\ UNCHANGED BATCH_PROCESS_LOCK

\* entering the body without taking the lock
AcquireNoLock(t) ==
    /\ pc[t] = "wait"
    /\ BATCH_PROCESS_LOCK' = t
    /\ pc' = [pc EXCEPT ![t] = "body"]
    /\ UNCHANGED <<arg, BATCH_QUEUE, outcome, sawQueued>>

\* with _BATCH_PROCESS_LOCK: blocks until the lock is free
Acquire(t) ==
    /\ pc[t] = "wait"
    /\ BATCH_PROCESS_LOCK = 0
    /\ BATCH_PROCESS_LOCK' = t
    /\ pc' = [pc EXCEPT ![t] = "body"]
    /\ UNCHANGED <<arg, BATCH_QUEUE, outcome, sawQueued>>

\* the body reduced to its two ways of ending
BodyReturns(t) ==
    /\ pc[t] = "body"
    /\ pc' = [pc EXCEPT ![t] = "unlock"]
    /\ outcome' = [outcome EXCEPT ![t] = "ok"]
    /\ UNCHANGED <<arg, BATCH_QUEUE, BATCH_PROCESS_LOCK, sawQueued>>

BodyRaises(t) ==
    /\ pc[t] = "body"
    /\ pc' = [pc EXCEPT ![t] = "unlock"]
    /\ outcome' = [outcome EXCEPT ![t] = "raised"]
    /\ UNCHANGED <<arg, BATCH_QUEUE, BATCH_PROCESS_LOCK, sawQueued>>

\* a release that an exception skips
ReleaseLockUnlessRaised(t) ==
    /\ pc[t] = "unlock"
    /\ BATCH_PROCESS_LOCK' = IF outcome[t] = "raised" THEN BATCH_PROCESS_LOCK ELSE 0
    /\ pc' = [pc EXCEPT ![t] = "finally"]
    /\ UNCHANGED <<arg, BATCH_QUEUE, outcome, sawQueued>>

\* leaving the with block, normally or by an exception, releases the lock
ReleaseLock(t) ==
    /\ pc[t] = "unlock"
    /\ BATCH_PROCESS_LOCK' = 0
    /\ pc' = [pc EXCEPT ![t] = "finally"]
    /\ UNCHANGED <<arg, BATCH_QUEUE, outcome, sawQueued>>

\* a finally block that leaves the batch id in the queue
FinallyKeepsEntry(t) ==
    /\ pc[t] = "finally"
    /\ pc' = [pc EXCEPT ![t] = "returned"]
    /\ UNCHANGED <<arg, BATCH_QUEUE, BATCH_PROCESS_LOCK, outcome, sawQueued>>

\* finally: with _QUEUE_LOCK: remove batch_id from the queue if it is there
Finally(t) ==
    /\ pc[t] = "finally"
    /\ BATCH_QUEUE' = IF InSeq(arg[t], BATCH_QUEUE)
                      THEN RemoveFirst(arg[t], BATCH_QUEUE)
                      ELSE BATCH_QUEUE
    /\ pc' = [pc EXCEPT ![t] = "returned"]
    /\ UNCHANGED <<arg, BATCH_PROCESS_LOCK, outcome, sawQueued>>

\* views.py 289-301: a later request starts another thread that calls
\* process_batch; the thread slot of a call that has returned is used again
NextCall(t) ==
    /\ pc[t] = "returned"
    /\ pc' = [pc EXCEPT ![t] = "idle"]
    /\ arg' = [arg EXCEPT ![t] = 0]
    /\ outcome' = [outcome EXCEPT ![t] = "none"]
    /\ sawQueued' = [sawQueued EXCEPT ![t] = FALSE]
    /\ UNCHANGED <<BATCH_QUEUE, BATCH_PROCESS_LOCK>>

\* ================================================== _parse_annotations
UnknownStr == "Unknown"

\* str.strip()
Strip(s) ==
    CASE s = " red " -> "red"
      [] s = " "     -> ""
      [] OTHER       -> s

\* str.lower()
Lower(s) ==
    CASE s = "Red"     -> "red"
      [] s = "RED"     -> "red"
      [] s = "Blue"    -> "blue"
      [] s = "Cotton"  -> "cotton"
      [] s = "Unknown" -> "unknown"
      [] s = "N/A"     -> "n/a"
      [] OTHER         -> s

unknown_markers == {"unknown", "n/a", "not available", "cannot determine", ""}

\* the attribute payloads a request may hold: allowed_values <<>> is a
\* missing or empty list
AttrDefs ==
    { [name |-> "Color",    allowed_values |-> <<"Red", "Blue">>],
      [name |-> "Color",    allowed_values |-> <<>>],
      [name |-> "Material", allowed_values |-> <<>>],
      [name |-> "Fabric",   allowed_values |-> <<"Cotton">>] }

RespKeys == {"Color", "Material", "Extra"}
RespValues == {"RED", " red ", "Blue", "cotton", "N/A", " "}

AttrLists == UNION { [1..n -> AttrDefs] : n \in 0..MaxAttrs }

Names(attrs) == { attrs[k].name : k \in 1..Len(attrs) }

\* attr_names = {attr['name']: attr for attr in attributes}: the last wins
attr_names(attrs) ==
    [ n \in Names(attrs) |->
        attrs[CHOOSE k \in 1..Len(attrs) :
                /\ attrs[k].name = n
                /\ \A j \in (k+1)..Len(attrs) : attrs[j].name # n] ]

\* allowed_lower = {v.lower(): v for v in allowed_values}: the last wins
allowed_lower(allowed) ==
    [ l \in { Lower(allowed[k]) : k \in 1..Len(allowed) } |->
        allowed[CHOOSE k \in 1..Len(allowed) :
                  /\ Lower(allowed[k]) = l
                  /\ \A j \in (k+1)..Len(allowed) : Lower(allowed[j]) # l] ]

\* the normalization that keeps the casing of a value that matches an
\* allowed value
NormalizeValueKeepsCase(attr_info, value) ==
    LET has_allowed_values == attr_info.allowed_values # <<>>
        value_str == Strip(value)
        value_lower == Lower(value_str)
        is_unknown_value == value_lower \in unknown_markers
    IN  IF has_allowed_values
        THEN IF value_lower \in DOMAIN allowed_lower(attr_info.allowed_values)
             THEN value_str
             ELSE IF is_unknown_value THEN UnknownStr ELSE value_str
        ELSE IF is_unknown_value THEN UnknownStr ELSE value_str

\* ai_service.py 642-663: one returned value of a requested attribute
NormalizeValue(attr_info, value) ==
    LET has_allowed_values == attr_info.allowed_values # <<>>
        value_str == Strip(value)
        value_lower == Lower(value_str)
        is_unknown_value == value_lower \in unknown_markers
    IN  IF has_allowed_values
        THEN IF value_lower \in DOMAIN allowed_lower(attr_info.allowed_values)
             THEN allowed_lower(attr_info.allowed_values)[value_lower]
             ELSE IF is_unknown_value THEN UnknownStr ELSE value_str
        ELSE IF is_unknown_value THEN UnknownStr ELSE value_str

\* ai_service.py 638-663: the loop over the returned annotations
Returned(attrs, resp) ==
    [ k \in { k \in DOMAIN resp : k \in Names(attrs) } |->
        NormalizeValue(attr_names(attrs)[k], resp[k]) ]

\* the result without the pass over the missing attributes
FillMissingSkipped(attrs, norm) == norm

\* ai_service.py 665-672: every requested attribute not yet in normalized
FillMissing(attrs, norm) ==
    [ n \in DOMAIN norm \cup Names(attrs) |->
        IF n \in DOMAIN norm THEN norm[n] ELSE UnknownStr ]

parse_annotations(attrs, resp) == FillMissing(attrs, Returned(attrs, resp))

PInit ==
    /\ attributes \in AttrLists
    /\ \E D \in SUBSET RespKeys : annotations \in [D -> RespValues]
    /\ normalized = <<>>
    /\ parsePc = "input"

ParseAnnotations ==
    /\ parsePc = "input"
    /\ normalized' = parse_annotations(attributes, annotations)
    /\ parsePc' = "returned"
    /\ UNCHANGED <<attributes, annotations>>

\* ============================================== provider configuration
IntVal(n) == [kind |-> "int", v |-> n]
NoneVal == [kind |-> "none", v |-> 0]
TextVal == [kind |-> "text", v |-> 0]

\* ai_runner.py 434-451: int(value), the default on TypeError / ValueError,
\* then the clamp to min_value
get_provider_config_int(value, default, min_value) ==
    LET v == IF value.kind = "int" THEN value.v ELSE default
    IN  IF v < min_value THEN min_value ELSE v

max_retries(p) == get_provider_config_int(config[p].max_retries, DefaultMaxRetries, 1)
max_threads(p) == get_provider_config_int(config[p].max_threads, DefaultMaxThreads, 1)

\* _find_provider over self.providers of the processor whose body runs
find_provider(p) == \E t \in Threads : pc[t] = "body" /\ p \in self_providers[t]

\* ======================================================= provider errors
\* str(exc) of the AIServiceError a provider call may end with
ErrorTexts ==
    { "API request failed with status 401: Unauthorized",
      "API request failed with status 500: error code 4010",
      "API key not found in provider config" }

\* str.lower() on the error texts
LowerText(s) ==
    CASE s = "API request failed with status 401: Unauthorized"
            -> "api request failed with status 401: unauthorized"
      [] s = "API request failed with status 500: error code 4010"
            -> "api request failed with status 500: error code 4010"
      [] s = "API key not found in provider config"
            -> "api key not found in provider config"
      [] OTHER -> s

\* the substrings, among those the classification and the specification
\* name, that occur in a text
Substrings(s) ==
    CASE s = "api request failed with status 401: unauthorized"
            -> {"status 401", "401"}
      [] s = "API request failed with status 401: Unauthorized"
            -> {"status 401", "401"}
      [] s = "api request failed with status 500: error code 4010"
            -> {"401"}
      [] s = "API request failed with status 500: error code 4010"
            -> {"401"}
      [] s = "api key not found in provider config"
            -> {"api key"}
      [] OTHER -> {}

Contains(s, sub) == sub \in Substrings(s)

\* the classification applied to the text as raised, without lower()
is_auth_error_case_sensitive(text) ==
    \/ Contains(text, "status 401")
    \/ Contains(text, "status 403")
    \/ Contains(text, "api key")
    \/ Contains(text, "authentication")

\* ai_runner.py 275-281
is_auth_error(text) ==
    LET error_text == LowerText(text)
    IN  \/ Contains(error_text, "status 401")
        \/ Contains(error_text, "status 403")
        \/ Contains(error_text, "api key")
        \/ Contains(error_text, "authentication")

\* ============================================================== helpers
RECURSIVE Pow2(_)
Pow2(n) == IF n = 0 THEN 1 ELSE 2 * Pow2(n - 1)

\* the ascending list of a set of ids (order_by("id"))
RECURSIVE SortedSeq(_)
SortedSeq(S) ==
    IF S = {} THEN <<>>
    ELSE LET m == CHOOSE x \in S : \A y \in S : x <= y
         IN  <<m>> \o SortedSeq(S \ {m})

PreFailure == {"ai_in_progress", "pending_ai", "pending"}

ItemsOf(p) == {i \in Products : itemStatus[<<p, i>>] # "absent"}
NumWith(p, st) == Cardinality({i \in ItemsOf(p) : itemStatus[<<p, i>>] = st})

\* completed / total * 100 stored in a DecimalField of 2 places: 1/100 percent
Progress(completed, total) ==
    IF total = 0 THEN 0 ELSE (completed * 20000 + total) \div (2 * total)

LastRunSet(rs, st, err) ==
    [rs EXCEPT ![Len(rs)] = [@ EXCEPT !.status = st, !.last_error = err]]

\* ================================================ the idle batch state
BodyIdle ==
    /\ bodyPc = "idle"
    /\ pause_event = FALSE
    /\ asgMem = [p \in Providers |-> "none"]
    /\ taskPc = [p \in Providers |-> "idle"]
    /\ todo = [p \in Providers |-> <<>>]
    /\ nextIdx = [p \in Providers |-> 1]
    /\ prodSnap = [it \in Items |-> "none"]
    /\ collected = [p \in Providers |-> {}]
    /\ wPc = [it \in Items |-> "none"]
    /\ attempt = [it \in Items |-> 0]
    /\ slept = [it \in Items |-> <<>>]

\* ============================================ _process_assignment_item
Running == {"loop", "calling"}

\* an item that starts as soon as it is submitted, whatever the pool holds
WorkerStartUnbounded(p, i) ==
    /\ wPc[<<p, i>>] = "queued"
    /\ itemStatus' = [itemStatus EXCEPT ![<<p, i>>] = "ai_in_progress"]
    /\ attempt' = [attempt EXCEPT ![<<p, i>>] = 0]
    /\ slept' = [slept EXCEPT ![<<p, i>>] = <<>>]
    /\ wPc' = [wPc EXCEPT ![<<p, i>>] = "loop"]
    /\ started_at' = [started_at EXCEPT ![<<p, i>>] = TRUE]
    /\ UNCHANGED <<qvars, pvars, cfgvars, bodyvars, taskvars, histvars,
                   is_paused, asgStatus, asgProgress, prodStatus, runs, flogs,
                   completed_at, product_annotations, response>>

\* ai_runner.py 177-187: a pool thread picks the item up
WorkerStart(p, i) ==
    /\ wPc[<<p, i>>] = "queued"
    /\ Cardinality({j \in Products : wPc[<<p, j>>] \in Running}) < max_threads(p)
    /\ itemStatus' = [itemStatus EXCEPT ![<<p, i>>] = "ai_in_progress"]
    /\ attempt' = [attempt EXCEPT ![<<p, i>>] = 0]
    /\ slept' = [slept EXCEPT ![<<p, i>>] = <<>>]
    /\ wPc' = [wPc EXCEPT ![<<p, i>>] = "loop"]
    /\ started_at' = [started_at EXCEPT ![<<p, i>>] = TRUE]
    /\ UNCHANGED <<qvars, pvars, cfgvars, bodyvars, taskvars, histvars,
                   is_paused, asgStatus, asgProgress, prodStatus, runs, flogs,
                   completed_at, product_annotations, response>>

\* a new attempt that takes over the run of the attempt before it
WorkerAttemptReusesRun(p, i) ==
    LET it == <<p, i>>
        row(st, err) == [attempt |-> attempt[it] + 1, status |-> st, last_error |-> err]
        put(st, err) == IF runs[it] = <<>> THEN <<row(st, err)>>
                        ELSE [runs[it] EXCEPT ![Len(runs[it])] = row(st, err)]
    IN
    /\ wPc[it] = "loop"
    /\ attempt[it] < max_retries(p)
    /\ attempt' = [attempt EXCEPT ![it] = @ + 1]
    /\ IF is_paused
       THEN /\ itemStatus' = [itemStatus EXCEPT ![it] = "pending_ai"]
            /\ runs' = [runs EXCEPT ![it] = put("failed", "Paused by control flag")]
            /\ wPc' = [wPc EXCEPT ![it] = "done"]
       ELSE /\ runs' = [runs EXCEPT ![it] = put("processing", "")]
            /\ wPc' = [wPc EXCEPT ![it] = "calling"]
            /\ UNCHANGED itemStatus
    /\ UNCHANGED <<qvars, pvars, cfgvars, extvars, bodyvars, taskvars, histvars,
                   is_paused, asgStatus, asgProgress, prodStatus, flogs, slept>>

\* an attempt that records the pause and goes on with the loop
WorkerAttemptPausedContinues(p, i) ==
    LET it == <<p, i>> IN
    /\ wPc[it] = "loop"
    /\ attempt[it] < max_retries(p)
    /\ attempt' = [attempt EXCEPT ![it] = @ + 1]
    /\ IF is_paused
       THEN /\ itemStatus' = [itemStatus EXCEPT ![it] = "pending_ai"]
            /\ runs' = [runs EXCEPT ![it] = Append(@,
                   [attempt |-> attempt[it] + 1, status |-> "failed",
                    last_error |-> "Paused by control flag"])]
            /\ wPc' = [wPc EXCEPT ![it] =
                         IF attempt[it] + 1 < max_retries(p) THEN "loop" ELSE "done"]
       ELSE /\ runs' = [runs EXCEPT ![it] = Append(@,
                   [attempt |-> attempt[it] + 1, status |-> "processing",
                    last_error |-> ""])]
            /\ wPc' = [wPc EXCEPT ![it] = "calling"]
            /\ UNCHANGED itemStatus
    /\ UNCHANGED <<qvars, pvars, cfgvars, extvars, bodyvars, taskvars, histvars,
                   is_paused, asgStatus, asgProgress, prodStatus, flogs, slept>>

\* ai_runner.py 189-207: a new attempt, its run, and the pause check
WorkerAttempt(p, i) ==
    LET it == <<p, i>> IN
    /\ wPc[it] = "loop"
    /\ attempt[it] < max_retries(p)
    /\ attempt' = [attempt EXCEPT ![it] = @ + 1]
    /\ IF is_paused
       THEN /\ itemStatus' = [itemStatus EXCEPT ![it] = "pending_ai"]
            /\ runs' = [runs EXCEPT ![it] = Append(@,
                   [attempt |-> attempt[it] + 1, status |-> "failed",
                    last_error |-> "Paused by control flag"])]
            /\ wPc' = [wPc EXCEPT ![it] = "done"]
       ELSE /\ runs' = [runs EXCEPT ![it] = Append(@,
                   [attempt |-> attempt[it] + 1, status |-> "processing",
                    last_error |-> ""])]
            /\ wPc' = [wPc EXCEPT ![it] = "calling"]
            /\ UNCHANGED itemStatus
    /\ UNCHANGED <<qvars, pvars, cfgvars, extvars, bodyvars, taskvars, histvars,
                   is_paused, asgStatus, asgProgress, prodStatus, flogs, slept>>

\* the value a provider call returns for an attribute, named by the run
\* of the item that made the call
ReturnedValue(it) == Len(runs[it])

\* an insert that does not look for an existing row
update_or_create_inserts(rows, value) == Append(rows, value)

\* ProductAnnotation.objects.update_or_create(product, attribute_id,
\* source_type, source_id, defaults): rows are the rows with that key
update_or_create(rows, value) ==
    IF rows = <<>> THEN <<value>> ELSE [rows EXCEPT ![1] = value]

\* ai_runner.py 213-265: get_ai_service found the provider active
\* (ai_service.py 701-704) and the provider call returned annotations
WorkerSuccess(p, i) ==
    LET it == <<p, i>> IN
    /\ wPc[it] = "calling"
    /\ providerActive[p]
    /\ product_annotations' = [product_annotations EXCEPT ![it] =
            [a \in AttrIds |-> update_or_create(@[a], ReturnedValue(it))]]
    /\ itemStatus' = [itemStatus EXCEPT ![it] = "ai_done"]
    /\ completed_at' = [completed_at EXCEPT ![it] = TRUE]
    /\ runs' = [runs EXCEPT ![it] = LastRunSet(@, "completed", "")]
    /\ wPc' = [wPc EXCEPT ![it] = "done"]
    /\ UNCHANGED <<qvars, pvars, cfgvars, bodyvars, taskvars, histvars,
                   is_paused, asgStatus, asgProgress, prodStatus, flogs,
                   attempt, slept, started_at, response>>

\* ai_runner.py 289-292 and 301-304: the product object is the one loaded
\* with the item
CascadeProduct(p, i) ==
    IF prodSnap[<<p, i>>] \in PreFailure
    THEN prodStatus' = [prodStatus EXCEPT ![i] = "ai_failed"]
    ELSE UNCHANGED prodStatus

\* the failure branch that gives up one attempt early
WorkerFailureGivesUpEarly(p, i, text) ==
    LET it == <<p, i>> IN
    /\ wPc[it] = "calling"
    /\ runs' = [runs EXCEPT ![it] = LastRunSet(@, "failed", text)]
    /\ flogs' = [flogs EXCEPT ![it].unresolved = @ + 1]
    /\ IF is_auth_error(text) \/ attempt[it] + 1 >= max_retries(p)
       THEN /\ itemStatus' = [itemStatus EXCEPT ![it] = "ai_failed"]
            /\ CascadeProduct(p, i)
            /\ wPc' = [wPc EXCEPT ![it] = "done"]
            /\ UNCHANGED slept
       ELSE /\ slept' = [slept EXCEPT ![it] = Append(@, Pow2(attempt[it]))]
            /\ wPc' = [wPc EXCEPT ![it] = "loop"]
            /\ UNCHANGED <<itemStatus, prodStatus>>
    /\ UNCHANGED <<qvars, pvars, cfgvars, extvars, bodyvars, taskvars, histvars,
                   is_paused, asgStatus, asgProgress, attempt>>

\* the failure branch that marks the product on every failed attempt
WorkerFailureCascadesEarly(p, i, text) ==
    LET it == <<p, i>> IN
    /\ wPc[it] = "calling"
    /\ runs' = [runs EXCEPT ![it] = LastRunSet(@, "failed", text)]
    /\ flogs' = [flogs EXCEPT ![it].unresolved = @ + 1]
    /\ CascadeProduct(p, i)
    /\ IF is_auth_error(text) \/ attempt[it] >= max_retries(p)
       THEN /\ itemStatus' = [itemStatus EXCEPT ![it] = "ai_failed"]
            /\ wPc' = [wPc EXCEPT ![it] = "done"]
            /\ UNCHANGED slept
       ELSE /\ slept' = [slept EXCEPT ![it] = Append(@, Pow2(attempt[it]))]
            /\ wPc' = [wPc EXCEPT ![it] = "loop"]
            /\ UNCHANGED itemStatus
    /\ UNCHANGED <<qvars, pvars, cfgvars, extvars, bodyvars, taskvars, histvars,
                   is_paused, asgStatus, asgProgress, attempt>>

\* the failure branch that returns at the last attempt without a status
WorkerFailureLeavesInProgress(p, i, text) ==
    LET it == <<p, i>> IN
    /\ wPc[it] = "calling"
    /\ runs' = [runs EXCEPT ![it] = LastRunSet(@, "failed", text)]
    /\ flogs' = [flogs EXCEPT ![it].unresolved = @ + 1]
    /\ IF is_auth_error(text)
       THEN /\ itemStatus' = [itemStatus EXCEPT ![it] = "ai_failed"]
            /\ CascadeProduct(p, i)
            /\ wPc' = [wPc EXCEPT ![it] = "done"]
            /\ UNCHANGED slept
       ELSE IF attempt[it] >= max_retries(p)
       THEN /\ wPc' = [wPc EXCEPT ![it] = "done"]
            /\ UNCHANGED <<itemStatus, prodStatus, slept>>
       ELSE /\ slept' = [slept EXCEPT ![it] = Append(@, Pow2(attempt[it]))]
            /\ wPc' = [wPc EXCEPT ![it] = "loop"]
            /\ UNCHANGED <<itemStatus, prodStatus>>
    /\ UNCHANGED <<qvars, pvars, cfgvars, extvars, bodyvars, taskvars, histvars,
                   is_paused, asgStatus, asgProgress, attempt>>

\* ai_runner.py 267-306 without the failure log of line 273
WorkerFailureUnlogged(p, i, text) ==
    LET it == <<p, i>> IN
    /\ wPc[it] = "calling"
    /\ runs' = [runs EXCEPT ![it] = LastRunSet(@, "failed", text)]
    /\ IF is_auth_error(text) \/ attempt[it] >= max_retries(p)
       THEN /\ itemStatus' = [itemStatus EXCEPT ![it] = "ai_failed"]
            /\ CascadeProduct(p, i)
            /\ wPc' = [wPc EXCEPT ![it] = "done"]
            /\ UNCHANGED slept
       ELSE /\ slept' = [slept EXCEPT ![it] = Append(@, Pow2(attempt[it]))]
            /\ wPc' = [wPc EXCEPT ![it] = "loop"]
            /\ UNCHANGED <<itemStatus, prodStatus>>
    /\ UNCHANGED <<qvars, pvars, cfgvars, extvars, bodyvars, taskvars, histvars,
                   is_paused, asgStatus, asgProgress, attempt, flogs>>

\* ai_runner.py 267-306: the provider call raised
WorkerFailure(p, i, text) ==
    LET it == <<p, i>> IN
    /\ wPc[it] = "calling"
    /\ runs' = [runs EXCEPT ![it] = LastRunSet(@, "failed", text)]
    /\ flogs' = [flogs EXCEPT ![it].unresolved = @ + 1]
    /\ IF is_auth_error(text) \/ attempt[it] >= max_retries(p)
       THEN /\ itemStatus' = [itemStatus EXCEPT ![it] = "ai_failed"]
            /\ CascadeProduct(p, i)
            /\ wPc' = [wPc EXCEPT ![it] = "done"]
            /\ UNCHANGED slept
       ELSE /\ slept' = [slept EXCEPT ![it] = Append(@, Pow2(attempt[it]))]
            /\ wPc' = [wPc EXCEPT ![it] = "loop"]
            /\ UNCHANGED <<itemStatus, prodStatus>>
    /\ UNCHANGED <<qvars, pvars, cfgvars, extvars, bodyvars, taskvars, histvars,
                   is_paused, asgStatus, asgProgress, attempt>>

\* ================================================= _process_assignment
\* assignment.status = 'pending'; assignment.save(...); pause_event.set()
BackToPending(p) ==
    /\ asgMem' = [asgMem EXCEPT ![p] = "pending"]
    /\ asgStatus' = [asgStatus EXCEPT ![p] = "pending"]
    /\ pause_event' = TRUE

\* ai_runner.py 473-485
mark_assignment_failed(p) ==
    LET its == {i \in ItemsOf(p) : itemStatus[<<p, i>>] # "ai_done"} IN
    /\ asgMem' = [asgMem EXCEPT ![p] = "failed"]
    /\ asgStatus' = [asgStatus EXCEPT ![p] = "failed"]
    /\ asgProgress' = [asgProgress EXCEPT ![p] = 0]
    /\ itemStatus' = [it \in Items |->
                        IF it[1] = p /\ it[2] \in its THEN "ai_failed"
                        ELSE itemStatus[it]]
    /\ prodStatus' = [i \in Products |->
                        IF i \in its /\ prodStatus[i] \in PreFailure THEN "ai_failed"
                        ELSE prodStatus[i]]

\* the start of the task that goes on to the item list although the pause
\* flag is raised
TaskStartNoPauseCheck(p) ==
    /\ taskPc[p] = "start"
    /\ IF ~find_provider(p)
       THEN /\ mark_assignment_failed(p)
            /\ taskPc' = [taskPc EXCEPT ![p] = "done"]
            /\ UNCHANGED <<pause_event, todo, nextIdx, prodSnap>>
       ELSE LET its == {i \in ItemsOf(p) : itemStatus[<<p, i>>] # "ai_done"} IN
            /\ todo' = [todo EXCEPT ![p] = SortedSeq(its)]
            /\ nextIdx' = [nextIdx EXCEPT ![p] = 1]
            /\ prodSnap' = [it \in Items |->
                              IF it[1] = p /\ it[2] \in its THEN prodStatus[it[2]]
                              ELSE prodSnap[it]]
            /\ taskPc' = [taskPc EXCEPT ![p] = IF its = {} THEN "cancel" ELSE "dispatch"]
            /\ UNCHANGED <<asgMem, asgStatus, pause_event, asgProgress, itemStatus, prodStatus>>
    /\ UNCHANGED <<qvars, pvars, cfgvars, extvars, workvars, histvars,
                   is_paused, runs, flogs, bodyPc, collected>>

\* the start of the task with an item list that keeps the ai_done items
TaskStartListsAll(p) ==
    /\ taskPc[p] = "start"
    /\ IF is_paused
       THEN /\ BackToPending(p)
            /\ taskPc' = [taskPc EXCEPT ![p] = "done"]
            /\ UNCHANGED <<asgProgress, itemStatus, prodStatus, todo, nextIdx, prodSnap>>
       ELSE IF ~find_provider(p)
       THEN /\ mark_assignment_failed(p)
            /\ taskPc' = [taskPc EXCEPT ![p] = "done"]
            /\ UNCHANGED <<pause_event, todo, nextIdx, prodSnap>>
       ELSE LET its == ItemsOf(p) IN
            /\ todo' = [todo EXCEPT ![p] = SortedSeq(its)]
            /\ nextIdx' = [nextIdx EXCEPT ![p] = 1]
            /\ prodSnap' = [it \in Items |->
                              IF it[1] = p /\ it[2] \in its THEN prodStatus[it[2]]
                              ELSE prodSnap[it]]
            /\ taskPc' = [taskPc EXCEPT ![p] = IF its = {} THEN "cancel" ELSE "dispatch"]
            /\ UNCHANGED <<asgMem, asgStatus, pause_event, asgProgress, itemStatus, prodStatus>>
    /\ UNCHANGED <<qvars, pvars, cfgvars, extvars, workvars, histvars,
                   is_paused, runs, flogs, bodyPc, collected>>

\* ai_runner.py 116-138: the pause check, the provider lookup, the item list
TaskStart(p) ==
    /\ taskPc[p] = "start"
    /\ IF is_paused
       THEN /\ BackToPending(p)
            /\ taskPc' = [taskPc EXCEPT ![p] = "done"]
            /\ UNCHANGED <<asgProgress, itemStatus, prodStatus, todo, nextIdx, prodSnap>>
       ELSE IF ~find_provider(p)
       THEN /\ mark_assignment_failed(p)
            /\ taskPc' = [taskPc EXCEPT ![p] = "done"]
            /\ UNCHANGED <<pause_event, todo, nextIdx, prodSnap>>
       ELSE LET its == {i \in ItemsOf(p) : itemStatus[<<p, i>>] # "ai_done"} IN
            /\ todo' = [todo EXCEPT ![p] = SortedSeq(its)]
            /\ nextIdx' = [nextIdx EXCEPT ![p] = 1]
            /\ prodSnap' = [it \in Items |->
                              IF it[1] = p /\ it[2] \in its THEN prodStatus[it[2]]
                              ELSE prodSnap[it]]
            /\ taskPc' = [taskPc EXCEPT ![p] = IF its = {} THEN "cancel" ELSE "dispatch"]
            /\ UNCHANGED <<asgMem, asgStatus, pause_event, asgProgress, itemStatus, prodStatus>>
    /\ UNCHANGED <<qvars, pvars, cfgvars, extvars, workvars, histvars,
                   is_paused, runs, flogs, bodyPc, collected>>

Dispatched(p) == { todo[p][k] : k \in 1..(nextIdx[p] - 1) }

\* the dispatch loop without its pause check
TaskDispatchNoPauseCheck(p) ==
    /\ taskPc[p] = "dispatch"
    /\ nextIdx[p] <= Len(todo[p])
    /\ wPc' = [wPc EXCEPT ![<<p, todo[p][nextIdx[p]]>>] = "queued"]
    /\ nextIdx' = [nextIdx EXCEPT ![p] = @ + 1]
    /\ taskPc' = [taskPc EXCEPT ![p] =
                    IF nextIdx[p] = Len(todo[p]) THEN "cancel" ELSE "dispatch"]
    /\ UNCHANGED <<qvars, pvars, cfgvars, extvars, histvars, storevars, bodyvars,
                   todo, prodSnap, collected, attempt, slept>>

\* a dispatch loop that marks the pause and submits the item all the same
TaskDispatchPauseContinues(p) ==
    /\ taskPc[p] = "dispatch"
    /\ nextIdx[p] <= Len(todo[p])
    /\ IF is_paused
       THEN BackToPending(p)
       ELSE UNCHANGED <<asgMem, asgStatus, pause_event>>
    /\ wPc' = [wPc EXCEPT ![<<p, todo[p][nextIdx[p]]>>] = "queued"]
    /\ nextIdx' = [nextIdx EXCEPT ![p] = @ + 1]
    /\ taskPc' = [taskPc EXCEPT ![p] =
                    IF nextIdx[p] = Len(todo[p]) THEN "cancel" ELSE "dispatch"]
    /\ UNCHANGED <<qvars, pvars, cfgvars, extvars, histvars, is_paused, asgProgress,
                   itemStatus, prodStatus, runs, flogs, bodyPc, todo, prodSnap,
                   collected, attempt, slept>>

\* ai_runner.py 142-151: one turn of the dispatch loop
TaskDispatch(p) ==
    /\ taskPc[p] = "dispatch"
    /\ nextIdx[p] <= Len(todo[p])
    /\ IF is_paused
       THEN /\ BackToPending(p)
            /\ taskPc' = [taskPc EXCEPT ![p] = "cancel"]
            /\ UNCHANGED <<wPc, nextIdx>>
       ELSE /\ wPc' = [wPc EXCEPT ![<<p, todo[p][nextIdx[p]]>>] = "queued"]
            /\ nextIdx' = [nextIdx EXCEPT ![p] = @ + 1]
            /\ taskPc' = [taskPc EXCEPT ![p] =
                            IF nextIdx[p] = Len(todo[p]) THEN "cancel" ELSE "dispatch"]
            /\ UNCHANGED <<asgMem, asgStatus, pause_event>>
    /\ UNCHANGED <<qvars, pvars, cfgvars, extvars, histvars, is_paused, asgProgress,
                   itemStatus, prodStatus, runs, flogs, bodyPc, todo, prodSnap,
                   collected, attempt, slept>>

\* ai_runner.py 153-155: future.cancel() takes effect on a future not yet
\* picked up by a pool thread
TaskCancel(p) ==
    /\ taskPc[p] = "cancel"
    /\ wPc' = [it \in Items |->
                 IF pause_event /\ it[1] = p /\ it[2] \in Dispatched(p) /\ wPc[it] = "queued"
                 THEN "cancelled" ELSE wPc[it]]
    /\ taskPc' = [taskPc EXCEPT ![p] = IF Dispatched(p) = {} THEN "finish" ELSE "collect"]
    /\ UNCHANGED <<qvars, pvars, cfgvars, extvars, storevars, bodyvars, histvars,
                   todo, nextIdx, prodSnap, collected, attempt, slept>>

Finished == {"done", "cancelled"}

\* ai_runner.py 157-166: as_completed yields a finished future, then the
\* pause check
TaskCollect(p, i) ==
    /\ taskPc[p] = "collect"
    /\ i \in Dispatched(p) \ collected[p]
    /\ wPc[<<p, i>>] \in Finished
    /\ collected' = [collected EXCEPT ![p] = @ \cup {i}]
    /\ IF is_paused
       THEN /\ BackToPending(p)
            /\ taskPc' = [taskPc EXCEPT ![p] = "finish"]
       ELSE /\ taskPc' = [taskPc EXCEPT ![p] =
                            IF collected[p] \cup {i} = Dispatched(p) THEN "finish"
                            ELSE "collect"]
            /\ UNCHANGED <<asgMem, asgStatus, pause_event>>
    /\ UNCHANGED <<qvars, pvars, cfgvars, extvars, workvars, histvars, is_paused,
                   asgProgress, itemStatus, prodStatus, runs, flogs, bodyPc,
                   todo, nextIdx, prodSnap>>

\* the recomputation with failed and completed counts exchanged
update_assignment_progress_swapped(p) ==
    LET total == Cardinality(ItemsOf(p))
        completed == NumWith(p, "ai_failed")
        failed == NumWith(p, "ai_done")
        status == IF failed > 0 THEN "failed"
                  ELSE IF completed = total /\ total > 0 THEN "completed"
                  ELSE asgMem[p]
    IN  /\ asgProgress' = [asgProgress EXCEPT ![p] = Progress(completed, total)]
        /\ asgMem' = [asgMem EXCEPT ![p] = status]
        /\ asgStatus' = [asgStatus EXCEPT ![p] = status]

\* ai_runner.py 308-321
update_assignment_progress(p) ==
    LET total == Cardinality(ItemsOf(p))
        completed == NumWith(p, "ai_done")
        failed == NumWith(p, "ai_failed")
        status == IF failed > 0 THEN "failed"
                  ELSE IF completed = total /\ total > 0 THEN "completed"
                  ELSE asgMem[p]
    IN  /\ asgProgress' = [asgProgress EXCEPT ![p] = Progress(completed, total)]
        /\ asgMem' = [asgMem EXCEPT ![p] = status]
        /\ asgStatus' = [asgStatus EXCEPT ![p] = status]

\* ai_runner.py 140 and 168: the executor's exit waits for every pool
\* thread, then the progress is recomputed
TaskFinish(p) ==
    /\ taskPc[p] = "finish"
    /\ \A i \in Dispatched(p) : wPc[<<p, i>>] \in Finished
    /\ update_assignment_progress(p)
    /\ taskPc' = [taskPc EXCEPT ![p] = "done"]
    /\ UNCHANGED <<qvars, pvars, cfgvars, extvars, workvars, histvars, is_paused,
                   itemStatus, prodStatus, runs, flogs, bodyPc, pause_event,
                   todo, nextIdx, prodSnap, collected>>

\* ============================================= _process_batch_internal
\* ai_runner.py 84-98: pending assignments become in_progress, the
\* assignments are loaded, one task per assignment is submitted
BodyStart(t) ==
    /\ pc[t] = "body"
    /\ bodyPc = "idle"
    /\ asgStatus' = [p \in Providers |->
                       IF asgStatus[p] = "pending" THEN "in_progress" ELSE asgStatus[p]]
    /\ asgMem' = [p \in Providers |->
                    IF p \in assignments
                    THEN (IF asgStatus[p] = "pending" THEN "in_progress" ELSE asgStatus[p])
                    ELSE "none"]
    /\ pause_event' = FALSE
    /\ taskPc' = [p \in Providers |-> IF p \in assignments THEN "start" ELSE "idle"]
    /\ bodyPc' = "tasks"
    /\ lastBody' = "running"
    /\ bodyFrame' = IF is_paused THEN asgStatus ELSE <<>>
    /\ cancelledInBody' = FALSE
    /\ UNCHANGED <<qvars, pvars, cfgvars, extvars, workvars, everPaused, inflightAtPause,
                   retryFrame, is_paused, asgProgress, itemStatus, prodStatus,
                   runs, flogs, todo, nextIdx, prodSnap, collected>>

\* a finalization that lets completion win over failure
finalize_done_first(i) ==
    LET product_items == {p \in assignments : itemStatus[<<p, i>>] # "absent"} IN
    IF \E p \in product_items : itemStatus[<<p, i>>] = "ai_done"
    THEN "ai_done"
    ELSE IF \E p \in product_items : itemStatus[<<p, i>>] = "ai_failed"
    THEN "ai_failed"
    ELSE prodStatus[i]

\* ai_runner.py 330-348: the new status of one product of the batch
finalize_product(i) ==
    LET product_items == {p \in assignments : itemStatus[<<p, i>>] # "absent"} IN
    IF \E p \in product_items : itemStatus[<<p, i>>] = "ai_failed"
    THEN "ai_failed"
    ELSE IF \E p \in product_items : itemStatus[<<p, i>>] # "ai_done"
    THEN prodStatus[i]
    ELSE IF prodStatus[i] \in {"ai_in_progress", "pending_ai", "pending", "ai_failed"}
    THEN "ai_done"
    ELSE prodStatus[i]

\* ai_runner.py 99-104: as_completed yields the future of a task that
\* returned or raised
TaskEnded == {"done", "raised"}

\* an unexpected exception leaves _process_assignment at any of its
\* statements (ai_runner.py 114-168)
TaskRaises(p) ==
    /\ taskPc[p] \in {"start", "dispatch", "cancel", "collect", "finish"}
    /\ taskPc' = [taskPc EXCEPT ![p] = "unwind"]
    /\ UNCHANGED <<qvars, pvars, cfgvars, extvars, storevars, bodyvars, workvars,
                   histvars, todo, nextIdx, prodSnap, collected>>

\* ai_runner.py 140: the exception leaves the with block of the item pool,
\* whose exit waits for the submitted items; then the task's future holds
\* the exception
TaskUnwind(p) ==
    /\ taskPc[p] = "unwind"
    /\ \A i \in Dispatched(p) : wPc[<<p, i>>] \in Finished
    /\ taskPc' = [taskPc EXCEPT ![p] = "raised"]
    /\ UNCHANGED <<qvars, pvars, cfgvars, extvars, storevars, bodyvars, workvars,
                   histvars, todo, nextIdx, prodSnap, collected>>

\* the end of the body with the check of the flag alone, without the
\* pause event the tasks set
BodyFinishIgnoresEvent(t) ==
    /\ pc[t] = "body"
    /\ bodyPc = "tasks"
    /\ \A p \in assignments : taskPc[p] \in TaskEnded
    /\ IF is_paused
       THEN /\ lastBody' = "paused"
            /\ UNCHANGED prodStatus
       ELSE /\ lastBody' = "finalized"
            /\ prodStatus' = [i \in Products |->
                                IF i \in batch_items THEN finalize_product(i)
                                ELSE prodStatus[i]]
    /\ bodyPc' = "idle"
    /\ pause_event' = FALSE
    /\ asgMem' = [p \in Providers |-> "none"]
    /\ taskPc' = [p \in Providers |-> "idle"]
    /\ todo' = [p \in Providers |-> <<>>]
    /\ nextIdx' = [p \in Providers |-> 1]
    /\ prodSnap' = [it \in Items |-> "none"]
    /\ collected' = [p \in Providers |-> {}]
    /\ wPc' = [it \in Items |-> "none"]
    /\ attempt' = [it \in Items |-> 0]
    /\ pc' = [pc EXCEPT ![t] = "unlock"]
    /\ outcome' = [outcome EXCEPT ![t] = "ok"]
    /\ inflightAtPause' = {}
    /\ bodyFrame' = <<>>
    /\ UNCHANGED <<pvars, cfgvars, extvars, everPaused, cancelledInBody, retryFrame,
                   arg, BATCH_QUEUE,
                   BATCH_PROCESS_LOCK, sawQueued, is_paused, asgStatus, asgProgress,
                   itemStatus, runs, flogs, slept>>

\* the end of a body that lets the exception of a task through: no
\* finalization, and the body ends with the exception
BodyFinishPropagates(t) ==
    /\ pc[t] = "body"
    /\ bodyPc = "tasks"
    /\ \A p \in assignments : taskPc[p] \in TaskEnded
    /\ IF pause_event \/ is_paused \/ \E p \in assignments : taskPc[p] = "raised"
       THEN /\ lastBody' = "paused"
            /\ UNCHANGED prodStatus
       ELSE /\ lastBody' = "finalized"
            /\ prodStatus' = [i \in Products |->
                                IF i \in batch_items THEN finalize_product(i)
                                ELSE prodStatus[i]]
    /\ bodyPc' = "idle"
    /\ pause_event' = FALSE
    /\ asgMem' = [p \in Providers |-> "none"]
    /\ taskPc' = [p \in Providers |-> "idle"]
    /\ todo' = [p \in Providers |-> <<>>]
    /\ nextIdx' = [p \in Providers |-> 1]
    /\ prodSnap' = [it \in Items |-> "none"]
    /\ collected' = [p \in Providers |-> {}]
    /\ wPc' = [it \in Items |-> "none"]
    /\ attempt' = [it \in Items |-> 0]
    /\ pc' = [pc EXCEPT ![t] = "unlock"]
    /\ outcome' = [outcome EXCEPT ![t] =
                      IF \E p \in assignments : taskPc[p] = "raised" THEN "raised" ELSE "ok"]
    /\ inflightAtPause' = {}
    /\ bodyFrame' = <<>>
    /\ UNCHANGED <<pvars, cfgvars, extvars, everPaused, cancelledInBody, retryFrame,
                   arg, BATCH_QUEUE,
                   BATCH_PROCESS_LOCK, sawQueued, is_paused, asgStatus, asgProgress,
                   itemStatus, runs, flogs, slept>>

\* ai_runner.py 99-112: every task has ended; unless a pause was seen the
\* products are finalized; the body returns
BodyFinish(t) ==
    /\ pc[t] = "body"
    /\ bodyPc = "tasks"
    /\ \A p \in assignments : taskPc[p] \in TaskEnded
    /\ IF pause_event \/ is_paused
       THEN /\ lastBody' = "paused"
            /\ UNCHANGED prodStatus
       ELSE /\ lastBody' = "finalized"
            /\ prodStatus' = [i \in Products |->
                                IF i \in batch_items THEN finalize_product(i)
                                ELSE prodStatus[i]]
    /\ bodyPc' = "idle"
    /\ pause_event' = FALSE
    /\ asgMem' = [p \in Providers |-> "none"]
    /\ taskPc' = [p \in Providers |-> "idle"]
    /\ todo' = [p \in Providers |-> <<>>]
    /\ nextIdx' = [p \in Providers |-> 1]
    /\ prodSnap' = [it \in Items |-> "none"]
    /\ collected' = [p \in Providers |-> {}]
    /\ wPc' = [it \in Items |-> "none"]
    /\ attempt' = [it \in Items |-> 0]
    /\ pc' = [pc EXCEPT ![t] = "unlock"]
    /\ outcome' = [outcome EXCEPT ![t] = "ok"]
    /\ inflightAtPause' = {}
    /\ bodyFrame' = <<>>
    /\ UNCHANGED <<pvars, cfgvars, extvars, everPaused, cancelledInBody, retryFrame,
                   arg, BATCH_QUEUE,
                   BATCH_PROCESS_LOCK, sawQueued, is_paused, asgStatus, asgProgress,
                   itemStatus, runs, flogs, slept>>

\* views.py 289-301: the thread of a batch constructs its processor, which
\* loads the active providers of the batch (ai_runner.py 53-54), and calls
\* process_batch
process_ai_batch(t) ==
    /\ self_providers' = [self_providers EXCEPT ![t] =
                             {p \in assignments : providerActive[p]}]
    /\ Submit(t, 1)
    /\ UNCHANGED <<pvars, providerActive, config, assignments, batch_items,
                   storevars, bodyvars, taskvars, workvars, histvars, extvars>>

\* AIProviderViewSet (views.py 1606-1610): an admin updates is_active
set_provider_active(p, b) ==
    /\ p \in assignments
    /\ providerActive[p] # b
    /\ providerActive' = [providerActive EXCEPT ![p] = b]
    /\ UNCHANGED <<qvars, pvars, self_providers, config, assignments, batch_items,
                   storevars, bodyvars, taskvars, workvars, histvars, extvars>>

\* ====================================================== operator actions
\* views.py 2085-2092
pause_ai_processing ==
    /\ ~is_paused
    /\ is_paused' = TRUE
    /\ everPaused' = TRUE
    /\ inflightAtPause' = {it \in Items : wPc[it] = "calling"}
    /\ UNCHANGED <<bodyFrame, cancelledInBody, qvars, pvars, cfgvars, extvars,
                   bodyvars, taskvars,
                   workvars, lastBody,
                   retryFrame, asgStatus, asgProgress, itemStatus, prodStatus,
                   runs, flogs>>

\* views.py 2317-2414: the thread it starts is the first one not yet used
retry_failed_ai ==
    LET failed_provider_ids ==
            {p \in assignments : \E i \in ItemsOf(p) : flogs[<<p, i>>].unresolved > 0}
        reset == {it \in Items : it[1] \in failed_provider_ids
                                  /\ itemStatus[it] = "ai_failed"}
        \* product_ids is evaluated after the items were updated: the items of
        \* the retried assignments that are ai_failed then
        product_ids == {it[2] : it \in {x \in Items : x[1] \in failed_provider_ids
                                                        /\ itemStatus'[x] = "ai_failed"}}
    IN  /\ failed_provider_ids # {}
        /\ \E t \in Threads :
              /\ pc[t] = "none"
              /\ \A u \in Threads : u < t => pc[u] # "none"
              /\ pc' = [pc EXCEPT ![t] = "idle"]
        /\ itemStatus' = [it \in Items |->
                            IF it \in reset THEN "ai_in_progress" ELSE itemStatus[it]]
        /\ asgStatus' = [p \in Providers |->
                           IF p \in failed_provider_ids THEN "pending" ELSE asgStatus[p]]
        /\ asgProgress' = [p \in Providers |->
                             IF p \in failed_provider_ids THEN 0 ELSE asgProgress[p]]
        /\ flogs' = [it \in Items |->
                        [unresolved |-> 0,
                         resolved |-> flogs[it].resolved + flogs[it].unresolved]]
        /\ prodStatus' = [i \in Products |->
                            IF i \in product_ids /\ prodStatus[i] # "ai_done"
                            THEN "ai_in_progress" ELSE prodStatus[i]]
        /\ retryFrame' = [p \in Providers |->
                            IF p \in assignments \ failed_provider_ids
                            THEN <<asgStatus[p], asgProgress[p]>> ELSE <<>>]
        /\ started_at' = [it \in Items |-> IF it \in reset THEN FALSE ELSE started_at[it]]
        /\ completed_at' = [it \in Items |->
                              IF it \in reset THEN FALSE ELSE completed_at[it]]
        /\ response' = "Retry started for failed providers only"
        /\ cancelledInBody' = FALSE
        /\ UNCHANGED <<product_annotations, pvars, cfgvars, bodyvars, taskvars, workvars,
                       everPaused, bodyFrame,
                       lastBody, inflightAtPause, arg, BATCH_QUEUE, BATCH_PROCESS_LOCK,
                       outcome, sawQueued, is_paused, runs>>

\* a retry that goes on without unresolved failure logs
retry_failed_ai_unguarded ==
    /\ \A p \in assignments : \A i \in ItemsOf(p) : flogs[<<p, i>>].unresolved = 0
    /\ \E t \in Threads :
          /\ pc[t] = "none"
          /\ \A u \in Threads : u < t => pc[u] # "none"
          /\ pc' = [pc EXCEPT ![t] = "idle"]
    /\ response' = "Retry started for failed providers only"
    /\ UNCHANGED <<pvars, cfgvars, storevars, bodyvars, taskvars, workvars, histvars,
                   arg, BATCH_QUEUE, BATCH_PROCESS_LOCK, outcome, sawQueued,
                   started_at, completed_at, product_annotations>>

\* views.py 2329-2345: no unresolved failure log, or none with a provider
retry_failed_ai_nothing ==
    /\ \A p \in assignments : \A i \in ItemsOf(p) : flogs[<<p, i>>].unresolved = 0
    /\ response' = "No failed AI items to retry"
    /\ UNCHANGED <<qvars, pvars, cfgvars, storevars, bodyvars, taskvars, workvars,
                   histvars, started_at, completed_at, product_annotations>>

\* a cancel that spares the items that are ai_done or ai_failed
cancel_spares_terminal ==
    /\ asgStatus' = [p \in Providers |->
                       IF p \in assignments THEN "cancelled" ELSE asgStatus[p]]
    /\ itemStatus' = [it \in Items |->
                        IF itemStatus[it] \in {"absent", "ai_done", "ai_failed"}
                        THEN itemStatus[it] ELSE "pending_ai"]
    /\ started_at' = [it \in Items |-> FALSE]
    /\ completed_at' = [it \in Items |-> FALSE]
    /\ prodStatus' = [i \in Products |->
                        IF i \in batch_items THEN "pending_ai" ELSE prodStatus[i]]
    /\ cancelledInBody' = (bodyPc = "tasks")
    /\ UNCHANGED <<qvars, pvars, cfgvars, bodyvars, taskvars, workvars,
                   everPaused, lastBody, inflightAtPause, retryFrame, bodyFrame,
                   is_paused, asgProgress, runs, flogs, product_annotations, response>>

\* views.py 2416-2463, for a batch of batch_type "ai": one transaction
cancel ==
    /\ asgStatus' = [p \in Providers |->
                       IF p \in assignments THEN "cancelled" ELSE asgStatus[p]]
    /\ itemStatus' = [it \in Items |->
                        IF itemStatus[it] = "absent" THEN "absent" ELSE "pending_ai"]
    /\ started_at' = [it \in Items |-> FALSE]
    /\ completed_at' = [it \in Items |-> FALSE]
    /\ prodStatus' = [i \in Products |->
                        IF i \in batch_items THEN "pending_ai" ELSE prodStatus[i]]
    /\ cancelledInBody' = (bodyPc = "tasks")
    /\ UNCHANGED <<qvars, pvars, cfgvars, bodyvars, taskvars, workvars,
                   everPaused, lastBody, inflightAtPause, retryFrame, bodyFrame,
                   is_paused, asgProgress, runs, flogs, product_annotations, response>>

\* a pause of the batch that takes the ai_done and ai_failed items along
pause_ai_batch_resets_all ==
    LET items == {it \in Items : itemStatus[it] # "absent"}
    IN  /\ itemStatus' = [it \in Items |->
                            IF it \in items THEN "pending_ai" ELSE itemStatus[it]]
        /\ asgStatus' = [p \in Providers |->
                           IF p \in assignments THEN "pending" ELSE asgStatus[p]]
        /\ asgProgress' = [p \in Providers |->
                             IF p \in assignments THEN 0 ELSE asgProgress[p]]
        /\ prodStatus' = [i \in Products |->
                            IF /\ \E it \in items : it[2] = i
                               /\ prodStatus[i] \notin {"ai_done", "ai_failed"}
                            THEN "ai_in_progress" ELSE prodStatus[i]]
        /\ cancelledInBody' = FALSE
        /\ UNCHANGED <<qvars, pvars, cfgvars, bodyvars, taskvars, workvars,
                       everPaused, lastBody, inflightAtPause, retryFrame, bodyFrame,
                       is_paused, runs, flogs, started_at, completed_at,
                       product_annotations, response>>

\* views.py 2260-2283
pause_ai_batch ==
    LET items == {it \in Items : itemStatus[it] \notin {"absent", "ai_done", "ai_failed"}}
    IN  /\ itemStatus' = [it \in Items |->
                            IF it \in items THEN "pending_ai" ELSE itemStatus[it]]
        /\ asgStatus' = [p \in Providers |->
                           IF p \in assignments THEN "pending" ELSE asgStatus[p]]
        /\ asgProgress' = [p \in Providers |->
                             IF p \in assignments THEN 0 ELSE asgProgress[p]]
        /\ prodStatus' = [i \in Products |->
                            IF /\ \E it \in items : it[2] = i
                               /\ prodStatus[i] \notin {"ai_done", "ai_failed"}
                            THEN "ai_in_progress" ELSE prodStatus[i]]
        /\ cancelledInBody' = FALSE
        /\ UNCHANGED <<qvars, pvars, cfgvars, bodyvars, taskvars, workvars,
                       everPaused, lastBody, inflightAtPause, retryFrame, bodyFrame,
                       is_paused, runs, flogs, started_at, completed_at,
                       product_annotations, response>>

\* views.py 2285-2315: the thread it starts is the first one not yet used
resume_ai_batch ==
    LET items == {it \in Items : itemStatus[it] \notin {"absent", "ai_done", "ai_failed"}}
    IN  /\ \E t \in Threads :
              /\ pc[t] = "none"
              /\ \A u \in Threads : u < t => pc[u] # "none"
              /\ pc' = [pc EXCEPT ![t] = "idle"]
        /\ itemStatus' = [it \in Items |->
                            IF it \in items THEN "pending_ai" ELSE itemStatus[it]]
        /\ started_at' = [it \in Items |-> IF it \in items THEN FALSE ELSE started_at[it]]
        /\ completed_at' = [it \in Items |->
                              IF it \in items THEN FALSE ELSE completed_at[it]]
        /\ asgStatus' = [p \in Providers |->
                           IF p \in assignments THEN "pending" ELSE asgStatus[p]]
        /\ asgProgress' = [p \in Providers |->
                             IF p \in assignments THEN 0 ELSE asgProgress[p]]
        /\ prodStatus' = [i \in Products |->
                            IF /\ \E it \in items : it[2] = i
                               /\ prodStatus[i] \notin {"ai_done", "ai_failed"}
                            THEN "ai_in_progress" ELSE prodStatus[i]]
        /\ cancelledInBody' = FALSE
        /\ UNCHANGED <<pvars, cfgvars, bodyvars, taskvars, workvars,
                       everPaused, lastBody, inflightAtPause, retryFrame, bodyFrame,
                       arg, BATCH_QUEUE, BATCH_PROCESS_LOCK, outcome, sawQueued,
                       is_paused, runs, flogs, product_annotations, response>>

\* views.py 2094-2101
resume_ai_processing ==
    /\ is_paused
    /\ is_paused' = FALSE
    /\ inflightAtPause' = {}
    /\ bodyFrame' = <<>>
    /\ UNCHANGED <<cancelledInBody, qvars, pvars, cfgvars, extvars, bodyvars, taskvars,
                   workvars, everPaused,
                   lastBody, retryFrame, asgStatus, asgProgress, itemStatus,
                   prodStatus, runs, flogs>>

\* ====================================================== the batch world
ConfigProfiles ==
    { [max_retries |-> NoneVal,   max_threads |-> NoneVal],
      [max_retries |-> IntVal(0), max_threads |-> IntVal(1)],
      [max_retries |-> IntVal(2), max_threads |-> TextVal],
      [max_retries |-> TextVal,   max_threads |-> IntVal(0)] }

\* views.py 97-132: _create_ai_batch has committed: one pending assignment
\* per provider, one pending_ai item per product, the products in
\* ai_in_progress, and a thread about to call process_batch
BatchCreated ==
    /\ asgStatus = [p \in Providers |-> IF p \in assignments THEN "pending" ELSE "absent"]
    /\ asgProgress = [p \in Providers |-> 0]
    /\ itemStatus = [it \in Items |->
                       IF it[1] \in assignments /\ it[2] \in batch_items
                       THEN "pending_ai" ELSE "absent"]
    /\ prodStatus = [i \in Products |->
                       IF i \in batch_items THEN "ai_in_progress" ELSE "absent"]
    /\ runs = [it \in Items |-> <<>>]
    /\ flogs = [it \in Items |-> [unresolved |-> 0, resolved |-> 0]]
    /\ started_at = [it \in Items |-> FALSE]
    /\ completed_at = [it \in Items |-> FALSE]
    /\ product_annotations = [it \in Items |-> [a \in AttrIds |-> <<>>]]
    /\ response = "none"

BIdle ==
    /\ is_paused = FALSE
    /\ providerActive = [p \in Providers |-> TRUE]
    /\ self_providers = [t \in Threads |-> {}]
    /\ config = [p \in Providers |-> [max_retries |-> NoneVal, max_threads |-> NoneVal]]
    /\ assignments = {}
    /\ batch_items = {}
    /\ BatchCreated
    /\ BodyIdle
    /\ everPaused = FALSE
    /\ bodyFrame = <<>>
    /\ cancelledInBody = FALSE
    /\ lastBody = "none"
    /\ inflightAtPause = {}
    /\ retryFrame = [p \in Providers |-> <<>>]

\* values of the variables a specification does not use
QIdle ==
    /\ pc = [t \in Threads |-> "idle"]
    /\ arg = [t \in Threads |-> 0]
    /\ BATCH_QUEUE = <<>>
    /\ BATCH_PROCESS_LOCK = 0
    /\ outcome = [t \in Threads |-> "none"]
    /\ sawQueued = [t \in Threads |-> FALSE]

PIdle ==
    /\ attributes = <<>>
    /\ annotations = <<>>
    /\ normalized = <<>>
    /\ parsePc = "idle"

\* ===================================================== specifications
InitQueue == QInit /\ PIdle /\ BIdle

NextQueue ==
    \/ \E t \in Threads, b \in Batches : Submit(t, b) /\ UNCHANGED <<pvars, bvars>>
    \/ \E t \in Threads : Acquire(t) /\ UNCHANGED <<pvars, bvars>>
    \/ \E t \in Threads : BodyReturns(t) /\ UNCHANGED <<pvars, bvars>>
    \/ \E t \in Threads : BodyRaises(t) /\ UNCHANGED <<pvars, bvars>>
    \/ \E t \in Threads : ReleaseLock(t) /\ UNCHANGED <<pvars, bvars>>
    \/ \E t \in Threads : Finally(t) /\ UNCHANGED <<pvars, bvars>>

SpecQueue == InitQueue /\ [][NextQueue]_vars

\* process_batch called again and again, under fair scheduling
NextQueueFair ==
    \/ NextQueue
    \/ \E t \in Threads : NextCall(t) /\ UNCHANGED <<pvars, bvars>>

\* every body ends; a thread that can leave the with block or run its
\* finally block does so; the lock is granted fairly: a thread that finds
\* the lock free again and again gets it (threading.Lock keeps no order
\* among the waiting threads, so the weak condition would not do)
QueueFairness ==
    \A t \in Threads :
        /\ SF_vars(Acquire(t) /\ UNCHANGED <<pvars, bvars>>)
        /\ WF_vars((BodyReturns(t) \/ BodyRaises(t)) /\ UNCHANGED <<pvars, bvars>>)
        /\ WF_vars(ReleaseLock(t) /\ UNCHANGED <<pvars, bvars>>)
        /\ WF_vars(Finally(t) /\ UNCHANGED <<pvars, bvars>>)

SpecQueueFair == InitQueue /\ [][NextQueueFair]_vars /\ QueueFairness

InitParse == QIdle /\ PInit /\ BIdle

NextParse == ParseAnnotations /\ UNCHANGED <<qvars, bvars>>

SpecParse == InitParse /\ [][NextParse]_vars

\* a batch just created, its thread about to call process_batch
InitBatchStore ==
    /\ pc = [t \in Threads |-> IF t = 1 THEN "idle" ELSE "none"]
    /\ arg = [t \in Threads |-> 0]
    /\ BATCH_QUEUE = <<>>
    /\ BATCH_PROCESS_LOCK = 0
    /\ outcome = [t \in Threads |-> "none"]
    /\ sawQueued = [t \in Threads |-> FALSE]
    /\ is_paused = FALSE
    /\ \E n, m \in 1..MaxItems :
         /\ n * m <= MaxItems
         /\ assignments = 1..n
         /\ batch_items = 1..m
    /\ providerActive \in [Providers -> BOOLEAN]
    /\ self_providers = [t \in Threads |-> {}]
    /\ config \in [Providers -> ConfigProfiles]
    /\ \A p \in Providers \ assignments :
         /\ providerActive[p]
         /\ config[p] = [max_retries |-> NoneVal, max_threads |-> NoneVal]
    /\ BatchCreated
    /\ BodyIdle
    /\ everPaused = FALSE
    /\ bodyFrame = <<>>
    /\ cancelledInBody = FALSE
    /\ lastBody = "none"
    /\ inflightAtPause = {}
    /\ retryFrame = [p \in Providers |-> <<>>]

InitBatch == PIdle /\ InitBatchStore

\* the steps of the threads that run the batch, the provider calls failing
\* with the given error texts
RunStepsWith(texts) ==
    \/ \E t \in Threads : process_ai_batch(t)
    \/ \E t \in Threads : Acquire(t) /\ UNCHANGED <<pvars, bvars>>
    \/ \E t \in Threads : BodyStart(t)
    \/ \E p \in Providers : TaskStart(p)
    \/ \E p \in Providers : TaskDispatch(p)
    \/ \E p \in Providers : TaskCancel(p)
    \/ \E p \in Providers, i \in Products : TaskCollect(p, i)
    \/ \E p \in Providers : TaskFinish(p)
    \/ \E p \in Providers, i \in Products : WorkerStart(p, i)
    \/ \E p \in Providers, i \in Products : WorkerAttempt(p, i)
    \/ \E p \in Providers, i \in Products : WorkerSuccess(p, i)
    \/ \E p \in Providers, i \in Products, text \in texts : WorkerFailure(p, i, text)
    \/ \E t \in Threads : BodyFinish(t)
    \/ \E t \in Threads : ReleaseLock(t) /\ UNCHANGED <<pvars, bvars>>
    \/ \E t \in Threads : Finally(t) /\ UNCHANGED <<pvars, bvars>>

RunSteps == RunStepsWith(ErrorTexts)

NextBatch ==
    \/ RunSteps
    \/ pause_ai_processing
    \/ resume_ai_processing

SpecBatch == InitBatch /\ [][NextBatch]_vars

\* a batch whose providers make one attempt per item, one item at a time
InitRetry ==
    /\ InitBatch
    /\ \A p \in assignments :
         config[p] = [max_retries |-> IntVal(0), max_threads |-> IntVal(1)]

RetryRequest ==
    /\ Cardinality({t \in Threads : pc[t] # "none"}) <= MaxRetryOps
    /\ retry_failed_ai

NextRetry ==
    \/ RunSteps
    \/ pause_ai_processing
    \/ resume_ai_processing
    \/ RetryRequest

SpecRetry == InitRetry /\ [][NextRetry]_vars

\* one error text is enough where every provider makes one attempt per item
OpsErrorTexts == {"API request failed with status 401: Unauthorized"}

ResumeRequest ==
    /\ Cardinality({t \in Threads : pc[t] # "none"}) <= MaxRetryOps
    /\ resume_ai_batch

\* the batch of SpecRetry with the operator actions on the batch
NextOps ==
    \/ RunStepsWith(OpsErrorTexts)
    \/ cancel
    \/ ResumeRequest

SpecOps == InitRetry /\ [][NextOps]_vars

\* the batch of SpecOps with pause_ai_batch
NextPauseBatch ==
    \/ NextOps
    \/ pause_ai_batch

\* one active provider, one or two products
InitPauseBatch ==
    /\ InitRetry
    /\ assignments = 1..1
    /\ \A p \in Providers : providerActive[p]

SpecPauseBatch == InitPauseBatch /\ [][NextPauseBatch]_vars

\* the batch of SpecRetry with both outcomes of retry_failed_ai
NextRetryAny ==
    \/ RunStepsWith(OpsErrorTexts)
    \/ RetryRequest
    \/ retry_failed_ai_nothing

SpecRetryAny == InitRetry /\ [][NextRetryAny]_vars

\* str(exc) of the AIServiceError get_ai_service raises for a provider
\* that is not active at the call (ai_service.py 701-704)
InactiveText == "AI Provider not found or inactive"

\* the batch of SpecRetry while an admin activates and deactivates its
\* providers
NextProviders ==
    \/ RunStepsWith(OpsErrorTexts)
    \/ \E p \in Providers, i \in Products :
          ~providerActive[p] /\ WorkerFailure(p, i, InactiveText)
    \/ \E p \in Providers, b \in BOOLEAN : set_provider_active(p, b)

SpecProviders == InitRetry /\ [][NextProviders]_vars

\* the batch of SpecRetry with assignment tasks that may raise
NextCrash ==
    \/ RunStepsWith(OpsErrorTexts)
    \/ \E p \in Providers : TaskRaises(p)
    \/ \E p \in Providers : TaskUnwind(p)

SpecCrash == InitRetry /\ [][NextCrash]_vars

\* a batch whose providers make up to two attempts per item
InitRetryTwice ==
    /\ InitBatch
    /\ \A p \in assignments :
         config[p] = [max_retries |-> IntVal(2), max_threads |-> TextVal]

\* an error that is retried
TransientTexts == {"API request failed with status 500: error code 4010"}

\* the batch with retry_failed_ai, a failed attempt being followed by
\* another
NextRetryTwice ==
    \/ RunStepsWith(TransientTexts)
    \/ RetryRequest

SpecRetryTwice == InitRetryTwice /\ [][NextRetryTwice]_vars

\* ------------------------------------------------- an undisturbed run
\* every provider of the batch is active and stays so, the pause flag is
\* never raised and no operator request is made
InitRun ==
    /\ InitBatch
    /\ \A p \in Providers : providerActive[p]

NextRun == RunSteps

\* every thread of the run that can take a step takes one, and every
\* provider call returns, with a value or with an error
RunFairness == WF_vars(NextRun)

SpecRunFair == InitRun /\ [][NextRun]_vars /\ RunFairness

\* ------------------------------------------ the item worker and the gateway
\* ai_service.py 184-191: the provider answers and annotate_product returns
\* what _parse_annotations makes of the answer for the attributes asked for
annotate_product(p, i) ==
    /\ wPc[<<p, i>>] = "calling"
    /\ parsePc = "idle"
    /\ \E D \in SUBSET RespKeys : annotations' \in [D -> RespValues]
    /\ normalized' = parse_annotations(attributes, annotations')
    /\ parsePc' = "returned"
    /\ UNCHANGED <<attributes, qvars, bvars>>

\* ai_runner.py 227-265: an annotation is stored for every attribute whose
\* name is in the returned map, then the item is ai_done and the run
\* completed
PersistAnnotations(p, i) ==
    LET it == <<p, i>> IN
    /\ wPc[it] = "calling"
    /\ parsePc = "returned"
    /\ product_annotations' = [product_annotations EXCEPT ![it] =
            [a \in AttrIds |->
                IF a <= Len(attributes) /\ attributes[a].name \in DOMAIN normalized
                THEN update_or_create(@[a], normalized[attributes[a].name])
                ELSE @[a]]]
    /\ itemStatus' = [itemStatus EXCEPT ![it] = "ai_done"]
    /\ completed_at' = [completed_at EXCEPT ![it] = TRUE]
    /\ runs' = [runs EXCEPT ![it] = LastRunSet(@, "completed", "")]
    /\ wPc' = [wPc EXCEPT ![it] = "done"]
    /\ UNCHANGED <<qvars, pvars, cfgvars, bodyvars, taskvars, histvars,
                   is_paused, asgStatus, asgProgress, prodStatus, flogs,
                   attempt, slept, started_at, response>>

\* one provider, one product whose applicable attributes are any list of
\* attribute payloads, one attempt per item
InitAnnotate ==
    /\ attributes \in AttrLists
    /\ annotations = <<>>
    /\ normalized = <<>>
    /\ parsePc = "idle"
    /\ InitBatchStore
    /\ assignments = 1..1
    /\ batch_items = 1..1
    /\ \A p \in Providers : providerActive[p]
    /\ \A p \in assignments :
         config[p] = [max_retries |-> IntVal(0), max_threads |-> IntVal(1)]

\* the run of the batch with the provider call taken apart: the call
\* raises, or it returns a parsed answer that the worker stores
NextAnnotate ==
    \/ \E t \in Threads : process_ai_batch(t)
    \/ \E t \in Threads : Acquire(t) /\ UNCHANGED <<pvars, bvars>>
    \/ \E t \in Threads : BodyStart(t)
    \/ \E p \in Providers : TaskStart(p)
    \/ \E p \in Providers : TaskDispatch(p)
    \/ \E p \in Providers : TaskCancel(p)
    \/ \E p \in Providers, i \in Products : TaskCollect(p, i)
    \/ \E p \in Providers : TaskFinish(p)
    \/ \E p \in Providers, i \in Products : WorkerStart(p, i)
    \/ \E p \in Providers, i \in Products : WorkerAttempt(p, i)
    \/ \E p \in Providers, i \in Products : annotate_product(p, i)
    \/ \E p \in Providers, i \in Products : PersistAnnotations(p, i)
    \/ \E p \in Providers, i \in Products, text \in OpsErrorTexts :
          parsePc = "idle" /\ WorkerFailure(p, i, text)
    \/ \E t \in Threads : BodyFinish(t)
    \/ \E t \in Threads : ReleaseLock(t) /\ UNCHANGED <<pvars, bvars>>
    \/ \E t \in Threads : Finally(t) /\ UNCHANGED <<pvars, bvars>>

SpecAnnotate == InitAnnotate /\ [][NextAnnotate]_vars

\* ============================================================== claims
Live == {"wait", "body", "unlock", "finally"}

\* C1: no two threads are inside the batch body at once, so the bodies of
\* two different batches never overlap.
C1_MutualExclusion ==
    \A t1, t2 \in Threads :
        (t1 # t2 /\ pc[t1] = "body") => pc[t2] # "body"

C1_Witness ==
    \E t1, t2 \in Threads :
        /\ arg[t1] # arg[t2]
        /\ pc[t1] = "body"
        /\ pc[t2] = "wait"

\* C2: a call that finds its batch id queued returns without running the
\* body; of the submissions of one batch that overlap, at most one is
\* admitted, and every admitted one runs the body.
C2_DuplicateSkipped ==
    /\ \A t \in Threads :
        sawQueued[t] => (pc[t] = "returned" /\ outcome[t] = "skipped")
    /\ \A b \in Batches :
        Cardinality({t \in Threads : arg[t] = b /\ pc[t] \in Live}) <= 1
    /\ \A t \in Threads :
        (pc[t] = "returned" /\ ~sawQueued[t]) => outcome[t] \in {"ok", "raised"}

C2_Witness ==
    \E t1, t2 \in Threads :
        /\ t1 # t2
        /\ arg[t1] = arg[t2]
        /\ sawQueued[t2] /\ pc[t2] = "returned" /\ outcome[t2] = "skipped"
        /\ ~sawQueued[t1] /\ pc[t1] = "returned" /\ outcome[t1] = "ok"

\* C3: after a call whose body raised has exited, the lock is not held by
\* that call (the lock is only ever held by a thread inside the with
\* block), and the batch id is in the queue only on behalf of another
\* submission that is still under way.
C3_ReleasedOnException ==
    /\ BATCH_PROCESS_LOCK # 0 => pc[BATCH_PROCESS_LOCK] \in {"body", "unlock"}
    /\ \A t \in Threads :
        (pc[t] = "returned" /\ outcome[t] = "raised") =>
            /\ BATCH_PROCESS_LOCK # t
            /\ InSeq(arg[t], BATCH_QUEUE) =>
                 \E u \in Threads : u # t /\ arg[u] = arg[t] /\ pc[u] \in Live

\* a body raised, and afterwards the same batch and another batch run
C3_Witness ==
    \E t, u, w \in Threads :
        /\ pc[t] = "returned" /\ outcome[t] = "raised"
        /\ arg[u] = arg[t] /\ ~sawQueued[u] /\ pc[u] = "returned" /\ outcome[u] = "ok"
        /\ arg[w] # arg[t] /\ pc[w] = "body"

\* C6: the returned map has exactly the requested attribute names as its
\* keys; a requested attribute absent from the response is "Unknown".
C6_AllRequestedKeys ==
    parsePc = "returned" =>
        /\ DOMAIN normalized = Names(attributes)
        /\ \A n \in Names(attributes) :
             n \notin DOMAIN annotations => normalized[n] = UnknownStr

C6_Witness ==
    /\ parsePc = "returned"
    /\ \E n \in Names(attributes) : n \notin DOMAIN annotations
    /\ \E n \in Names(attributes) : n \in DOMAIN annotations
    /\ \E k \in DOMAIN annotations : k \notin Names(attributes)

\* --------------------------------------------------- item processor
InPool == {"queued", "loop", "calling"}

AllFailedTransient(it) ==
    /\ runs[it] # <<>>
    /\ \A k \in 1..Len(runs[it]) :
         /\ runs[it][k].status = "failed"
         /\ runs[it][k].last_error \in ErrorTexts
         /\ ~is_auth_error(runs[it][k].last_error)

\* C4: with the pause flag never raised, an item whose every provider call
\* failed with a non-authentication error is ai_failed when its processor
\* has returned, with exactly max_retries runs, numbered 1..max_retries in
\* order and all failed, and the sleeps were 2^1, ..., 2^(max_retries - 1).
C4_RetryExhaustion ==
    \A p \in Providers, i \in Products :
        LET it == <<p, i>> IN
        (wPc[it] \notin InPool /\ ~everPaused /\ AllFailedTransient(it)) =>
            /\ itemStatus[it] = "ai_failed"
            /\ Len(runs[it]) = max_retries(p)
            /\ \A k \in 1..Len(runs[it]) : runs[it][k].attempt = k
            /\ slept[it] = [k \in 1..(max_retries(p) - 1) |-> 2^k]

C4_Witness ==
    \E p \in Providers, i \in Products :
        LET it == <<p, i>> IN
        /\ wPc[it] \notin InPool /\ ~everPaused /\ AllFailedTransient(it)
        /\ Len(runs[it]) = DefaultMaxRetries
        /\ slept[it] = <<2, 4>>
        /\ itemStatus[it] = "ai_failed"

\* the signatures as the specification lists them
ListedSignature(text) ==
    \E sig \in {"401", "403", "api key", "authentication"} :
        Contains(LowerText(text), sig)

\* the signatures the classification looks for
AuthSignature(text) ==
    \E sig \in {"status 401", "status 403", "api key", "authentication"} :
        Contains(LowerText(text), sig)

\* a run that failed with such an error is the item's last run, made the
\* item ai_failed and ended the processor, with no sleep after it
StopsAt(it, k) ==
    /\ k = Len(runs[it])
    /\ itemStatus[it] = "ai_failed"
    /\ wPc[it] \notin InPool
    /\ Len(slept[it]) = k - 1

\* C5 as written: an error on attempt k whose text contains "401", "403",
\* "api key" or "authentication" ends the item at once as ai_failed with
\* exactly k runs.
C5_AsWritten ==
    \A it \in Items : \A k \in 1..Len(runs[it]) :
        (runs[it][k].status = "failed" /\ ListedSignature(runs[it][k].last_error))
            => StopsAt(it, k)

\* C5 amended: an error on attempt k whose lower-cased text contains
\* "status 401", "status 403", "api key" or "authentication" ends the item
\* at once as ai_failed with exactly k runs and no sleep after attempt k.
C5_AuthShortCircuit ==
    \A it \in Items : \A k \in 1..Len(runs[it]) :
        (runs[it][k].status = "failed" /\ AuthSignature(runs[it][k].last_error))
            => StopsAt(it, k)

\* attempt 1 of 3 failed with a text that matches only once lower-cased
C5_Witness ==
    \E p \in Providers, i \in Products :
        LET it == <<p, i>> IN
        /\ max_retries(p) = DefaultMaxRetries
        /\ Len(runs[it]) = 1
        /\ runs[it][1].status = "failed"
        /\ runs[it][1].last_error = "API key not found in provider config"
        /\ StopsAt(it, 1)

\* ------------------------------------------------------ finalization
\* C7: after finalization has run, every product of the batch with an
\* ai_failed item is ai_failed.
C7_FailureDominates ==
    lastBody = "finalized" =>
        \A i \in batch_items :
            (\E p \in assignments : itemStatus[<<p, i>>] = "ai_failed")
                => prodStatus[i] = "ai_failed"

C7_Witness ==
    /\ lastBody = "finalized"
    /\ \E i \in batch_items : \E p, q \in assignments :
         /\ itemStatus[<<p, i>>] = "ai_done"
         /\ itemStatus[<<q, i>>] = "ai_failed"
         /\ prodStatus[i] = "ai_failed"

\* --------------------------------------------------------------- pause
PastDispatch == {"cancel", "collect", "finish", "done"}

LastRun(it) == runs[it][Len(runs[it])]

\* C8: while the pause flag is raised no item is dispatched, and once an
\* assignment's dispatch loop has ended its undispatched items keep their
\* status; a provider call in flight ends only by persisting its outcome:
\* ai_done with a completed run, or a failed run with a failure log.
C8_PauseHaltsDispatch ==
    [][ /\ \A it \in Items :
             (is_paused /\ wPc[it] = "none") => wPc'[it] = "none"
        /\ \A it \in Items :
             (taskPc[it[1]] \in PastDispatch /\ wPc[it] = "none") =>
                 (wPc'[it] = "none" /\ itemStatus'[it] = itemStatus[it])
        /\ \A it \in Items :
             (wPc[it] = "calling" /\ wPc'[it] # "calling") =>
                 \/ /\ wPc'[it] = "done"
                    /\ itemStatus'[it] = "ai_done"
                    /\ LastRun(it)' .status = "completed"
                 \/ /\ wPc'[it] \in {"done", "loop"}
                    /\ LastRun(it)'.status = "failed"
                    /\ flogs'[it].unresolved = flogs[it].unresolved + 1
      ]_vars

\* the flag was raised during a call; the call ended as ai_done under the
\* raised flag, and an item of the same assignment was never dispatched
C8_Witness ==
    \E p \in Providers, i, j \in Products :
        /\ is_paused
        /\ <<p, i>> \in inflightAtPause
        /\ wPc[<<p, i>>] = "done"
        /\ itemStatus[<<p, i>>] = "ai_done"
        /\ taskPc[p] \in PastDispatch
        /\ InSeq(j, todo[p])
        /\ wPc[<<p, j>>] = "none"
        /\ itemStatus[<<p, j>>] = "pending_ai"

\* --------------------------------------------------------------- retry
\* C9: after a retry_failed_ai, an assignment that was completed and had
\* no unresolved failure log keeps its status and progress, through the
\* retry and the batch run it starts.
C9_CompletedUntouched ==
    \A p \in Providers :
        (retryFrame[p] # <<>> /\ retryFrame[p][1] = "completed") =>
            (asgStatus[p] = retryFrame[p][1] /\ asgProgress[p] = retryFrame[p][2])

\* ---------------------------------------------------------- end to end
NoFailedRun == \A it \in Items : \A k \in 1..Len(runs[it]) : runs[it][k].status = "completed"

\* C10: when the batch body has ended, with every provider of the batch
\* active, no provider call failed and the pause flag never raised, every
\* item is ai_done, every assignment is completed at progress 100 and
\* every product is ai_done.
C10_EndToEnd ==
    (/\ lastBody \in {"finalized", "paused"}
     /\ ~everPaused
     /\ \A p \in assignments : providerActive[p]
     /\ NoFailedRun) =>
        /\ lastBody = "finalized"
        /\ \A p \in assignments : \A i \in batch_items :
             /\ itemStatus[<<p, i>>] = "ai_done"
             /\ runs[<<p, i>>] = <<[attempt |-> 1, status |-> "completed", last_error |-> ""]>>
        /\ \A p \in assignments : asgStatus[p] = "completed" /\ asgProgress[p] = 10000
        /\ \A i \in batch_items : prodStatus[i] = "ai_done"

C10_Witness ==
    /\ lastBody = "finalized"
    /\ ~everPaused
    /\ Cardinality(assignments) = 1
    /\ Cardinality(batch_items) = MaxItems
    /\ \A p \in assignments : providerActive[p]
    /\ NoFailedRun
    /\ \A i \in batch_items : prodStatus[i] = "ai_done"

\* -------------------------------------------------------------- cancel
BatchItems == {it \in Items : it[1] \in assignments /\ it[2] \in batch_items}

\* C11: the step in which cancel takes a product back to pending_ai (only
\* cancel does) leaves every assignment of the batch cancelled, every item
\* pending_ai with started_at and completed_at cleared, and every product
\* of the batch pending_ai.
C11_CancelResetsAll ==
    [][ (\E i \in batch_items : prodStatus[i] # "pending_ai" /\ prodStatus'[i] = "pending_ai")
        => /\ \A p \in assignments : asgStatus'[p] = "cancelled"
           /\ \A it \in BatchItems :
                /\ itemStatus'[it] = "pending_ai"
                /\ ~started_at'[it]
                /\ ~completed_at'[it]
           /\ \A i \in batch_items : prodStatus'[i] = "pending_ai"
      ]_vars

\* a cancelled batch one of whose items had been annotated by its provider
C11_Witness ==
    /\ \A p \in assignments : asgStatus[p] = "cancelled"
    /\ \A it \in BatchItems :
         itemStatus[it] = "pending_ai" /\ ~started_at[it] /\ ~completed_at[it]
    /\ \A i \in batch_items : prodStatus[i] = "pending_ai"
    /\ \E it \in BatchItems :
         /\ runs[it] # <<>>
         /\ LastRun(it).status = "completed"
         /\ wPc[it] = "done"

\* ------------------------------------------- outcomes of the processor
PausedText == "Paused by control flag"

\* C12: an item processor ends with the item ai_done after a completed run,
\* ai_failed after a failed last attempt or an authentication error, or
\* pending_ai after a pause; until then the item stays ai_in_progress.
C12_ProcessorOutcome ==
    [][ \A p \in Providers, i \in Products :
          LET it == <<p, i>> IN
          /\ (wPc[it] \in Running /\ wPc'[it] \in Running) =>
                (itemStatus[it] = "ai_in_progress" /\ itemStatus'[it] = "ai_in_progress")
          /\ (wPc[it] \in Running /\ wPc'[it] \notin Running) =>
                /\ wPc'[it] = "done"
                /\ itemStatus[it] = "ai_in_progress"
                /\ \/ /\ itemStatus'[it] = "ai_done"
                      /\ LastRun(it)'.status = "completed"
                   \/ /\ itemStatus'[it] = "ai_failed"
                      /\ LastRun(it)'.status = "failed"
                      /\ LastRun(it)'.last_error \in ErrorTexts
                      /\ \/ is_auth_error(LastRun(it)'.last_error)
                         \/ LastRun(it)'.attempt = max_retries(p)
                   \/ /\ itemStatus'[it] = "pending_ai"
                      /\ LastRun(it)'.status = "failed"
                      /\ LastRun(it)'.last_error = PausedText
      ]_vars

\* the processors of a batch ended in three of the ways: one aborted for
\* the pause, one by an authentication error or by exhaustion
C12_Witness ==
    \E it, jt \in Items :
        /\ wPc[it] = "done" /\ itemStatus[it] = "pending_ai"
        /\ LastRun(it).last_error = PausedText
        /\ wPc[jt] = "done" /\ itemStatus[jt] = "ai_failed"
        /\ Len(runs[jt]) = max_retries(jt[1])
        /\ ~is_auth_error(LastRun(jt).last_error)

\* ------------------------------------------------- terminal statuses
Terminal == {"ai_done", "ai_failed"}

\* C13: a step that changes the status of an item that is ai_done or
\* ai_failed is a step of retry_failed_ai.
C13_TerminalKept ==
    [][ (\E it \in Items : itemStatus[it] \in Terminal /\ itemStatus'[it] # itemStatus[it])
        => retry_failed_ai ]_vars

\* -------------------------------------------------- product statuses
\* C14: a step that sets a product to ai_done finds every item of the
\* product, for every assignment of the batch, ai_done.
C14_DoneOnlyWhenAllDone ==
    [][ \A i \in batch_items :
          (prodStatus[i] # "ai_done" /\ prodStatus'[i] = "ai_done") =>
              \A p \in assignments : itemStatus[<<p, i>>] = "ai_done"
      ]_vars

\* a finalized batch of two providers with a product set to ai_done
C14_Witness ==
    /\ lastBody = "finalized"
    /\ Cardinality(assignments) = 2
    /\ \E i \in batch_items :
         /\ prodStatus[i] = "ai_done"
         /\ \A p \in assignments : itemStatus[<<p, i>>] = "ai_done"

\* C15 as written: a step changes the status of a product only if every
\* assignment's item for that product is then ai_done or ai_failed.
C15_AsWritten ==
    [][ \A i \in batch_items :
          prodStatus'[i] # prodStatus[i] =>
              \A p \in assignments : itemStatus'[<<p, i>>] \in Terminal
      ]_vars

\* C15 amended: a step of the orchestrator changes the status of a product
\* either to ai_failed, one of the product's items being ai_failed then, or
\* to ai_done, all of the product's items being ai_done then.
C15_ProductChanges ==
    [][ \A i \in batch_items :
          prodStatus'[i] # prodStatus[i] =>
              \/ /\ prodStatus'[i] = "ai_failed"
                 /\ \E p \in assignments : itemStatus'[<<p, i>>] = "ai_failed"
              \/ /\ prodStatus'[i] = "ai_done"
                 /\ \A p \in assignments : itemStatus'[<<p, i>>] = "ai_done"
      ]_vars

\* a product marked ai_failed during the run, while the item of another
\* provider for it is not terminal
C15_Witness ==
    /\ bodyPc = "tasks"
    /\ \E i \in batch_items : \E p, q \in assignments :
         /\ prodStatus[i] = "ai_failed"
         /\ itemStatus[<<p, i>>] = "ai_failed"
         /\ itemStatus[<<q, i>>] \in {"pending_ai", "ai_in_progress"}

\* ---------------------------------------------------------------- runs
Processing(rs) == {k \in 1..Len(rs) : rs[k].status = "processing"}

\* C16: an item never has two runs in processing; a step leaves every run
\* that is completed or failed as it is, changes of a run in processing
\* only its status and error, and a new attempt adds a new run.
C16_RunsAppendOnly ==
    [][ \A it \in Items :
          /\ Cardinality(Processing(runs'[it])) <= 1
          /\ Len(runs'[it]) >= Len(runs[it])
          /\ \A k \in 1..Len(runs[it]) :
               IF runs[it][k].status = "processing"
               THEN runs'[it][k].attempt = runs[it][k].attempt
               ELSE runs'[it][k] = runs[it][k]
          /\ attempt'[it] > attempt[it] => Len(runs'[it]) = Len(runs[it]) + 1
      ]_vars

\* a second attempt under way after a failed first one
C16_Witness ==
    \E it \in Items :
        /\ Len(runs[it]) = 2
        /\ runs[it][1].status = "failed"
        /\ runs[it][2].status = "processing"
        /\ runs[it][2].attempt = 2

\* --------------------------------------------------------- annotations
\* C17: there is never more than one annotation row per provider, product
\* and attribute; a step that writes the annotations of an item leaves one
\* row per attribute, holding the value of the call just made, and leaves
\* the annotations of every other provider and product as they are.
C17_OneAnnotationPerKey ==
    [][ /\ \A it \in Items, a \in AttrIds : Len(product_annotations'[it][a]) <= 1
        /\ \A it \in Items :
             product_annotations'[it] # product_annotations[it] =>
                 /\ \A a \in AttrIds :
                      product_annotations'[it][a] = <<ReturnedValue(it)>>
                 /\ \A jt \in Items \ {it} :
                      product_annotations'[jt] = product_annotations[jt]
      ]_vars

\* a product annotated by two providers, the item of one of them processed
\* a second time after a cancel and a resume_ai_batch
C17_Witness ==
    \E i \in batch_items : \E p, q \in assignments :
        /\ p # q
        /\ \A a \in AttrIds :
             /\ product_annotations[<<p, i>>][a] = <<2>>
             /\ product_annotations[<<q, i>>][a] = <<1>>
        /\ Len(runs[<<p, i>>]) = 2
        /\ runs[<<p, i>>][1].status = "completed"

\* ---------------------------------------------------------- admission
\* the place of a batch id in the queue
IndexOf(x, q) == CHOOSE k \in 1..Len(q) : q[k] = x /\ \A j \in 1..(k - 1) : q[j] # x

\* C18 as written: the body that starts is that of the batch that was
\* added to the queue before every other batch still waiting.
C18_AsWritten ==
    [][ \A t \in Threads :
          (pc[t] = "wait" /\ pc'[t] = "body") =>
              \A u \in Threads \ {t} :
                  pc[u] = "wait" =>
                      IndexOf(arg[t], BATCH_QUEUE) < IndexOf(arg[u], BATCH_QUEUE)
      ]_vars

\* C18 amended: a body starts only for a batch that is in the queue, when
\* the lock is free and no other body is executing; which of the waiting
\* batches starts is not determined by the order of submission.
C18_StartsFromQueue ==
    [][ \A t \in Threads :
          (pc[t] = "wait" /\ pc'[t] = "body") =>
              /\ InSeq(arg[t], BATCH_QUEUE)
              /\ BATCH_PROCESS_LOCK = 0
              /\ \A u \in Threads \ {t} : pc[u] \notin {"body", "unlock"}
      ]_vars

\* a batch in its body while a batch queued before it still waits
C18_Witness ==
    \E t, u \in Threads :
        /\ pc[t] = "body"
        /\ pc[u] = "wait"
        /\ IndexOf(arg[u], BATCH_QUEUE) < IndexOf(arg[t], BATCH_QUEUE)

\* ------------------------------------------------- failures are state
\* the runs of an item that ended with an error of the provider call
ProviderFailures(it) ==
    {k \in 1..Len(runs[it]) :
        runs[it][k].status = "failed" /\ runs[it][k].last_error \in ErrorTexts}

\* C19: no failure of a provider makes process_batch end with an
\* exception; each failed call is a failed ProcessingRun with its
\* FailureLog, a call that failed for good leaves the item and its product
\* ai_failed, and an inactive or missing provider leaves its assignment
\* failed and its items and their products ai_failed without any run.
C19_FailuresPersisted ==
    /\ \A t \in Threads : outcome[t] # "raised"
    /\ \A it \in Items :
         /\ flogs[it].unresolved + flogs[it].resolved = Cardinality(ProviderFailures(it))
         /\ (/\ wPc[it] \notin InPool
             /\ runs[it] # <<>>
             /\ Len(runs[it]) \in ProviderFailures(it)) =>
                (itemStatus[it] = "ai_failed" /\ prodStatus[it[2]] = "ai_failed")
    /\ \A p \in assignments :
         (~providerActive[p] /\ lastBody = "finalized") =>
             /\ asgStatus[p] = "failed"
             /\ \A i \in batch_items :
                  /\ itemStatus[<<p, i>>] = "ai_failed"
                  /\ runs[<<p, i>>] = <<>>
                  /\ prodStatus[i] = "ai_failed"

\* process_batch has returned normally for a batch with an inactive
\* provider and a provider whose call was rejected
C19_Witness ==
    \E t \in Threads : \E p, q \in assignments : \E i \in batch_items :
        /\ pc[t] = "returned" /\ outcome[t] = "ok"
        /\ lastBody = "finalized"
        /\ ~providerActive[p]
        /\ providerActive[q]
        /\ Len(runs[<<q, i>>]) \in ProviderFailures(<<q, i>>)
        /\ is_auth_error(LastRun(<<q, i>>).last_error)

\* ------------------------------------------------ retry with no failure
NothingToRetry == "No failed AI items to retry"

\* C20: a retry request on a batch with no unresolved FailureLog answers
\* that there is nothing to retry and changes no assignment, item, product,
\* run, FailureLog or annotation, and starts no thread for the batch.
C20_NothingToRetry ==
    [][ ( /\ \A p \in assignments : \A i \in ItemsOf(p) : flogs[<<p, i>>].unresolved = 0
          /\ response' # response ) =>
            /\ response' = NothingToRetry
            /\ UNCHANGED <<storevars, started_at, completed_at, product_annotations>>
            /\ UNCHANGED <<pc, arg, BATCH_QUEUE, BATCH_PROCESS_LOCK>>
      ]_vars

\* the answer was given for a batch that ran once, with a completed
\* assignment beside an assignment whose provider is inactive
C20_Witness ==
    /\ response = NothingToRetry
    /\ \A t \in Threads \ {1} : pc[t] = "none"
    /\ pc[1] = "returned"
    /\ \E p, q \in assignments :
         /\ asgStatus[p] = "completed"
         /\ asgStatus[q] = "failed"
         /\ \A i \in batch_items : /\ itemStatus[<<p, i>>] = "ai_done"
                                    /\ itemStatus[<<q, i>>] = "ai_failed"

\* ------------------------------------------------ pause and finalization
\* C21: a batch body that ends with the pause event set by one of its
\* tasks, or with the pause flag raised, changes no product status, and a
\* product becomes ai_done only in the step that ends a body in which no
\* pause was seen.
C21_PausedNoFinalize ==
    [][ /\ (bodyPc = "tasks" /\ bodyPc' = "idle" /\ (pause_event \/ is_paused)) =>
              (prodStatus' = prodStatus /\ lastBody' = "paused")
        /\ \A i \in Products :
              (prodStatus[i] # "ai_done" /\ prodStatus'[i] = "ai_done") =>
                  /\ bodyPc = "tasks" /\ bodyPc' = "idle"
                  /\ ~pause_event /\ ~is_paused
      ]_vars

\* a body ended as paused after the flag was lowered again: a task had seen
\* it; every item is ai_done and the products are left as they were
C21_Witness ==
    /\ lastBody = "paused"
    /\ ~is_paused
    /\ Cardinality(assignments) = 2
    /\ \A p \in assignments : \A i \in batch_items : itemStatus[<<p, i>>] = "ai_done"
    /\ \A i \in batch_items : prodStatus[i] = "ai_in_progress"

\* ------------------------------------------------- the paused attempt
\* C22: an attempt that finds the pause flag raised sets the item to
\* pending_ai, adds one run that is failed with the pause reason, makes no
\* provider call, writes no FailureLog, changes no product and ends the
\* processor; the paused run stays the item's last run, and an item that
\* failed by pause only has no FailureLog and is not ai_failed, which are
\* the two things retry_failed_ai selects by.
C22_PausedAttempt ==
    [][ \A it \in Items :
          /\ (attempt'[it] = attempt[it] + 1 /\ is_paused) =>
                /\ itemStatus'[it] = "pending_ai"
                /\ runs'[it] = Append(runs[it],
                       [attempt |-> attempt[it] + 1, status |-> "failed",
                        last_error |-> PausedText])
                /\ wPc'[it] = "done"
                /\ flogs' = flogs
                /\ prodStatus' = prodStatus
                /\ \A jt \in Items \ {it} : itemStatus'[jt] = itemStatus[jt]
          /\ \A k \in 1..(Len(runs'[it]) - 1) : runs'[it][k].last_error # PausedText
          /\ (runs'[it] # <<>> /\ (ProviderFailures(it))' = {}
                /\ LastRun(it)'.last_error = PausedText) =>
                /\ flogs'[it] = [unresolved |-> 0, resolved |-> 0]
                /\ itemStatus'[it] = "pending_ai"
      ]_vars

\* the second of three allowed attempts found the flag raised: the item
\* has two runs, the first failed by the provider, and is pending_ai
C22_Witness ==
    \E p \in assignments : \E i \in batch_items :
        LET it == <<p, i>> IN
        /\ max_retries(p) = 3
        /\ wPc[it] = "done"
        /\ Len(runs[it]) = 2
        /\ runs[it][1].last_error \in ErrorTexts
        /\ runs[it][2].last_error = PausedText
        /\ itemStatus[it] = "pending_ai"
        /\ flogs[it].unresolved = 1

\* ------------------------------------------- pause in the dispatch loop
\* the dispatch loop of the assignment's task was left with items undispatched
DispatchStopped(p) ==
    /\ taskPc[p] \in {"cancel", "collect", "finish", "done"}
    /\ nextIdx[p] <= Len(todo[p])

Undispatched(p) == { todo[p][k] : k \in nextIdx[p]..Len(todo[p]) }

\* C23 as written: after the dispatch loop stopped for a pause every
\* dispatched item runs to its end, and the assignment is pending when its
\* task returns.
C23_AsWritten ==
    [][ \A p \in Providers :
          (DispatchStopped(p) /\ taskPc[p] = "finish" /\ taskPc'[p] = "done") =>
              /\ asgStatus'[p] = "pending"
              /\ \A i \in Dispatched(p) : wPc[<<p, i>>] = "done"
      ]_vars

\* C23 amended: the turn of the dispatch loop that finds the flag raised
\* submits nothing, sets the assignment to pending and sets the pause event;
\* the items not yet dispatched are never submitted and keep their status;
\* a dispatched item that a pool thread has picked up runs to its end, one
\* not yet picked up may be cancelled instead; when the task returns every
\* dispatched item has ended or was cancelled, and the assignment is failed
\* if one of its items is ai_failed and pending otherwise.
C23_DispatchPaused ==
    [][ \A p \in Providers :
          /\ (/\ taskPc[p] = "dispatch" /\ is_paused
              /\ (taskPc'[p] # taskPc[p] \/ nextIdx'[p] # nextIdx[p])) =>
                /\ taskPc'[p] = "cancel"
                /\ nextIdx'[p] = nextIdx[p]
                /\ \A i \in Products : wPc'[<<p, i>>] = wPc[<<p, i>>]
                /\ asgStatus'[p] = "pending"
                /\ pause_event'
          /\ (DispatchStopped(p) /\ taskPc'[p] # "idle") =>
                /\ nextIdx'[p] = nextIdx[p]
                /\ \A i \in Undispatched(p) :
                     /\ wPc'[<<p, i>>] = "none"
                     /\ itemStatus'[<<p, i>>] = itemStatus[<<p, i>>]
          /\ \A i \in Products :
                (wPc[<<p, i>>] # "cancelled" /\ wPc'[<<p, i>>] = "cancelled") =>
                    wPc[<<p, i>>] = "queued"
          /\ (DispatchStopped(p) /\ taskPc[p] = "finish" /\ taskPc'[p] = "done") =>
                /\ \A i \in Dispatched(p) : wPc[<<p, i>>] \in Finished
                /\ asgStatus'[p] = IF \E i \in ItemsOf(p) : itemStatus[<<p, i>>] = "ai_failed"
                                   THEN "failed" ELSE "pending"
      ]_vars

\* the task returned after its loop stopped for a pause with the second
\* item undispatched; the first item had failed, and the assignment is failed
C23_Witness ==
    \E p \in assignments :
        /\ DispatchStopped(p)
        /\ taskPc[p] = "done"
        /\ Dispatched(p) # {}
        /\ \A i \in Dispatched(p) : itemStatus[<<p, i>>] = "ai_failed"
        /\ \A i \in Undispatched(p) : itemStatus[<<p, i>>] = "pending_ai"
        /\ asgStatus[p] = "failed"

\* ------------------------------------------- inactive or missing provider
\* C24: an assignment task that starts while its provider is inactive ends
\* at once, without dispatching an item (so without a run or a call): the
\* assignment is failed, its items that are not ai_done are ai_failed, their
\* products in a pre-failure status are ai_failed, and nothing else changes.
C24_InactiveAtTaskStart ==
    [][ \A p \in Providers :
          (taskPc[p] = "start" /\ taskPc'[p] # "start" /\ ~is_paused /\ ~providerActive[p]) =>
              /\ taskPc'[p] = "done"
              /\ asgStatus'[p] = "failed"
              /\ \A i \in ItemsOf(p) :
                   itemStatus'[<<p, i>>] =
                       IF itemStatus[<<p, i>>] = "ai_done" THEN "ai_done" ELSE "ai_failed"
              /\ \A i \in Products :
                   prodStatus'[i] =
                       IF /\ i \in ItemsOf(p)
                          /\ itemStatus[<<p, i>>] # "ai_done"
                          /\ prodStatus[i] \in PreFailure
                       THEN "ai_failed" ELSE prodStatus[i]
              /\ runs' = runs
      ]_vars

\* ------------------------------------------------- isolation of the tasks
\* C25: a body in which the task of an assignment raised still ends
\* normally and finalizes the products, and by then every other assignment
\* whose provider is present has processed each of its items: the item has
\* a run and is ai_done or ai_failed, and the assignment is completed or
\* failed.
C25_TaskIsolation ==
    [][ (bodyPc = "tasks" /\ bodyPc' = "idle") =>
          /\ \E t \in Threads :
                pc[t] = "body" /\ pc'[t] = "unlock" /\ outcome'[t] = "ok"
          /\ lastBody' = "finalized"
          /\ \A i \in batch_items : prodStatus'[i] = finalize_product(i)
          /\ \A q \in assignments :
                (taskPc[q] = "done" /\ find_provider(q)) =>
                    /\ asgStatus[q] \in {"completed", "failed"}
                    /\ \A i \in ItemsOf(q) :
                         /\ itemStatus[<<q, i>>] \in Terminal
                         /\ runs[<<q, i>>] # <<>>
      ]_vars

\* process_batch returned normally from a body in which the task of one
\* assignment raised at its start, leaving the assignment in_progress; the
\* other assignment is completed
C25_Witness ==
    \E t \in Threads : \E p, q \in assignments :
        /\ pc[t] = "returned" /\ outcome[t] = "ok"
        /\ lastBody = "finalized"
        /\ asgStatus[p] = "in_progress"
        /\ \A i \in batch_items : itemStatus[<<p, i>>] = "pending_ai"
        /\ asgStatus[q] = "completed"
        /\ \A i \in batch_items : itemStatus[<<q, i>>] = "ai_done"

\* ---------------------------------------------- progress recomputation
\* C26: the recomputation at the end of an assignment's task stores the
\* share of ai_done items as a percentage with two decimal places, between
\* 0 and 100; it sets the status to failed if an item is ai_failed, else to
\* completed if every item is ai_done, and else leaves the status the task
\* holds.
C26_ProgressAndStatus ==
    [][ \A p \in Providers :
          (taskPc[p] = "finish" /\ taskPc'[p] = "done") =>
              LET total == Cardinality(ItemsOf(p))
                  done == NumWith(p, "ai_done")
                  diff == asgProgress'[p] * total - done * 10000
              IN  /\ total > 0
                  /\ 2 * diff <= total /\ -2 * diff <= total
                  /\ asgProgress'[p] \in 0..10000
                  /\ asgStatus'[p] =
                        IF NumWith(p, "ai_failed") > 0 THEN "failed"
                        ELSE IF done = total THEN "completed"
                        ELSE asgMem[p]
                  /\ asgMem[p] = asgStatus[p]
                  /\ itemStatus' = itemStatus
      ]_vars

\* recomputed with one item ai_done and one ai_failed: failed, at 50.00
C26_Witness ==
    \E p \in assignments :
        /\ taskPc[p] = "done"
        /\ Cardinality(ItemsOf(p)) = 2
        /\ NumWith(p, "ai_done") = 1
        /\ NumWith(p, "ai_failed") = 1
        /\ asgStatus[p] = "failed"
        /\ asgProgress[p] = 5000

\* ------------------------------------------------------- remaining work
Listed(p) == { todo[p][k] : k \in 1..Len(todo[p]) }

\* C27: the item list of an assignment task holds no item that is ai_done
\* when the list is made, and while the task and the rest of the body run,
\* an ai_done item that is not on the list has no worker, gets no run and
\* keeps its status.
C27_DoneNotListed ==
    [][ \A p \in Providers :
          /\ (taskPc[p] = "start" /\ taskPc'[p] \in {"dispatch", "cancel"}) =>
                \A i \in ItemsOf(p) :
                    itemStatus[<<p, i>>] = "ai_done" => i \notin Listed(p)'
          /\ (taskPc[p] \in {"dispatch", "cancel", "collect", "finish", "done"}) =>
                \A i \in ItemsOf(p) \ Listed(p) :
                    itemStatus[<<p, i>>] = "ai_done" =>
                        /\ wPc[<<p, i>>] = "none" /\ wPc'[<<p, i>>] = "none"
                        /\ runs'[<<p, i>>] = runs[<<p, i>>]
                        /\ itemStatus'[<<p, i>>] = "ai_done"
      ]_vars

\* the run started by a retry has listed the second item only: the first,
\* ai_done from the first run, keeps its one run while the second has two
C27_Witness ==
    \E p \in assignments :
        /\ taskPc[p] = "done"
        /\ todo[p] = <<2>>
        /\ itemStatus[<<p, 1>>] = "ai_done"
        /\ Len(runs[<<p, 1>>]) = 1
        /\ Len(runs[<<p, 2>>]) = 2

\* ------------------------------------------------------ the item pool
InProcessor(p) == {i \in Products : wPc[<<p, i>>] \in Running}

\* the value the configuration yields: the integer, at least 1, or the
\* default when the entry is missing or no integer
Configured(value, default) ==
    IF value.kind = "int" THEN (IF value.v >= 1 THEN value.v ELSE 1) ELSE default

\* C28: at most max_threads items of an assignment are inside the item
\* processor at once; max_threads and max_retries are the configured
\* integers clamped to at least 1, 50 and 3 when missing or no integer; and
\* an item whose processor has ended made a provider call unless its first
\* attempt found the pause flag raised.
C28_BoundedPool ==
    \A p \in assignments :
        /\ Cardinality(InProcessor(p)) <= max_threads(p)
        /\ max_threads(p) = Configured(config[p].max_threads, 50)
        /\ max_retries(p) = Configured(config[p].max_retries, 3)
        /\ max_threads(p) >= 1 /\ max_retries(p) >= 1
        /\ \A i \in Products :
             wPc[<<p, i>>] = "done" =>
                /\ runs[<<p, i>>] # <<>>
                /\ \/ runs[<<p, i>>][1].last_error = PausedText
                   \/ runs[<<p, i>>][1].status = "completed"
                   \/ runs[<<p, i>>][1].last_error \in ErrorTexts

\* max_threads configured as 0 counts as 1: one item of the assignment is
\* in the processor and the other, submitted, waits for the pool thread
C28_Witness ==
    \E p \in assignments : \E i, j \in batch_items :
        /\ config[p].max_threads = IntVal(0)
        /\ wPc[<<p, i>>] = "calling"
        /\ wPc[<<p, j>>] = "queued"

\* ------------------------------------------------ value normalization
\* the allowed values of an attribute that equal a text ignoring case
Matches(attr_info, text) ==
    { attr_info.allowed_values[k] : k \in { k \in 1..Len(attr_info.allowed_values) :
                                            Lower(attr_info.allowed_values[k]) = Lower(text) } }

SignalsUnknown(text) == Lower(Strip(text)) \in unknown_markers

\* the returned values of requested attributes
ReturnedKeys == DOMAIN annotations \cap Names(attributes)

\* C29 as written: a returned value that equals an allowed value ignoring
\* case becomes that allowed value, else a value that signals unknown
\* becomes "Unknown", else the raw value is kept verbatim.
C29_AsWritten ==
    parsePc = "returned" =>
        \A k \in ReturnedKeys :
            LET attr_info == attr_names(attributes)[k]
                value == annotations[k]
            IN  IF Matches(attr_info, value) # {}
                THEN normalized[k] \in Matches(attr_info, value)
                ELSE IF SignalsUnknown(value) THEN normalized[k] = UnknownStr
                ELSE normalized[k] = value

\* C29 amended: the value is first trimmed of surrounding whitespace; the
\* trimmed value is matched against the allowed values ignoring case and
\* replaced by the allowed value, else becomes "Unknown" if it signals
\* unknown, else is kept as trimmed.
C29_TrimmedValue ==
    parsePc = "returned" =>
        \A k \in ReturnedKeys :
            LET attr_info == attr_names(attributes)[k]
                value == Strip(annotations[k])
            IN  IF Matches(attr_info, value) # {}
                THEN normalized[k] \in Matches(attr_info, value)
                ELSE IF SignalsUnknown(value) THEN normalized[k] = UnknownStr
                ELSE normalized[k] = value

\* " red " was returned for an attribute that allows "Red" and for a
\* free-form attribute: the results are "Red" and "red"
C29_Witness ==
    /\ parsePc = "returned"
    /\ {"Color", "Material"} \subseteq ReturnedKeys
    /\ attr_names(attributes)["Color"].allowed_values = <<"Red", "Blue">>
    /\ annotations["Color"] = " red " /\ annotations["Material"] = " red "
    /\ normalized["Color"] = "Red" /\ normalized["Material"] = "red"

\* ------------------------------------------ retry and completed providers
\* C30: a retry request leaves the status and the progress of every
\* completed assignment as they are, and the items of a completed
\* assignment ai_done.
C30_CompletedKept ==
    [][ (\E t \in Threads : pc[t] = "none" /\ pc'[t] = "idle") =>
          \A p \in assignments :
              asgStatus[p] = "completed" =>
                  /\ asgStatus'[p] = "completed"
                  /\ asgProgress'[p] = asgProgress[p]
                  /\ \A i \in ItemsOf(p) : itemStatus'[<<p, i>>] = "ai_done"
      ]_vars

\* ------------------------------------------- retry and the products
\* C31: right after a retry request no product of an item that the request
\* reset from ai_failed to ai_in_progress has processing_status ai_failed.
C31_ProductsOfResetItems ==
    [][ retry_failed_ai =>
          \A it \in Items :
              (itemStatus[it] = "ai_failed" /\ itemStatus'[it] = "ai_in_progress")
                  => prodStatus'[it[2]] # "ai_failed" ]_vars

\* ------------------------------------------- a body paused throughout
\* the pause flag has been raised since the running body started
PausedThroughout == bodyPc = "tasks" /\ bodyFrame # <<>>

\* C32: while a body runs with the pause flag raised since its start, no
\* step of the run changes the status of an item, creates a ProcessingRun,
\* makes a provider call or changes the status of a product, and when the
\* body ends every assignment that was pending or in_progress at its start
\* is pending.
C32_PausedThroughout ==
    [][ (PausedThroughout /\ ~retry_failed_ai) =>
          /\ itemStatus' = itemStatus
          /\ runs' = runs
          /\ wPc' = wPc
          /\ prodStatus' = prodStatus
          /\ bodyPc' = "idle" =>
                \A p \in assignments :
                    bodyFrame[p] \in {"pending", "in_progress"} => asgStatus'[p] = "pending"
      ]_vars

\* a second run of a batch is about to end with the pause flag raised since
\* its start: an item is ai_done from the first run and an assignment that
\* was pending at the start is pending
C32_Witness ==
    /\ PausedThroughout
    /\ \A p \in assignments : taskPc[p] = "done"
    /\ \E it \in Items : itemStatus[it] = "ai_done"
    /\ \E p \in assignments : bodyFrame[p] = "pending" /\ asgStatus[p] = "pending"

\* ------------------------------------------------ duplicates and the queue
\* C33: a process_batch call for a batch id that is queued leaves the queue
\* as it is; the queue never holds a batch id twice; the entry of an
\* admitted submission stays in the queue until that submission's body has
\* finished and its finally block removes it.
C33_DuplicateLeavesQueue ==
    /\ [](/\ \A j, k \in 1..Len(BATCH_QUEUE) :
                BATCH_QUEUE[j] = BATCH_QUEUE[k] => j = k
          /\ \A t \in Threads : pc[t] \in Live => InSeq(arg[t], BATCH_QUEUE))
    /\ [][ \A t \in Threads :
             (pc[t] = "idle" /\ pc'[t] # "idle" /\ InSeq(arg'[t], BATCH_QUEUE)) =>
                 BATCH_QUEUE' = BATCH_QUEUE ]_vars

\* a duplicate call has returned while the first submission of the batch
\* waits for the lock behind the body of another batch, its entry in place
C33_Witness ==
    \E t1, t2, t3 \in Threads :
        /\ t1 # t2 /\ arg[t1] = arg[t2]
        /\ sawQueued[t2] /\ pc[t2] = "returned"
        /\ ~sawQueued[t1] /\ pc[t1] = "wait"
        /\ pc[t3] = "body" /\ arg[t3] # arg[t1]
        /\ Len(BATCH_QUEUE) = 2 /\ InSeq(arg[t1], BATCH_QUEUE)

\* ------------------------------------------------------ no batch starves
\* C34: with every body ending and the lock granted fairly, every call that
\* has added its batch id to the queue eventually executes its body, and
\* every call that executes its body eventually returns with its batch id
\* removed from the queue.
C34_NoBatchWaitsForever ==
    \A t \in Threads :
        /\ (pc[t] = "wait") ~> (pc[t] = "body")
        /\ (pc[t] = "body") ~> (pc[t] = "returned" /\ ~InSeq(arg[t], BATCH_QUEUE))

\* a call has run its body and returned, its batch id gone from the queue,
\* while a call of the other batch is in its body and a later call of the
\* first batch waits
C34_Witness ==
    \E t, u, w \in Threads :
        /\ pc[t] = "returned" /\ outcome[t] = "ok" /\ ~sawQueued[t]
        /\ pc[u] = "body" /\ arg[u] # arg[t]
        /\ pc[w] = "wait" /\ arg[w] = arg[t]
        /\ BATCH_QUEUE = <<arg[u], arg[w]>>

\* ------------------------------------------ retry while the batch is queued
\* no call of process_batch is under way and none is still to be made
Quiescent ==
    /\ bodyPc = "idle"
    /\ \A t \in Threads : pc[t] \in {"none", "returned"}

\* the items that a retry request has reset: with one attempt per item the
\* failure log of an item is written as the item becomes ai_failed, and
\* only a retry request resolves it
ResetByRetry == {it \in Items : flogs[it].resolved > 0}

\* C35: when the process_batch call of a retry request found the batch
\* still queued and every call has returned, the pause flag never raised,
\* no item reset by the retry is ai_in_progress.
C35_ResetItemsFinish ==
    (/\ Quiescent
     /\ ~everPaused
     /\ \E t \in Threads : pc[t] = "returned" /\ sawQueued[t])
        => \A it \in ResetByRetry : itemStatus[it] # "ai_in_progress"

\* ------------------------------------------- cancel while the body runs
\* C36: when a batch was cancelled while its body was executing and the
\* body has finished, with no other request on the batch since, every
\* assignment of the batch is cancelled and every product of the batch is
\* pending_ai.
C36_CancelStands ==
    (cancelledInBody /\ bodyPc = "idle") =>
        /\ \A p \in assignments : asgStatus[p] = "cancelled"
        /\ \A i \in batch_items : prodStatus[i] = "pending_ai"

\* --------------------------------------------- ai_done and the annotations
\* C37: a step that sets an item to ai_done leaves the product with an AI
\* annotation from the item's provider for every attribute applicable to
\* the product.
C37_DoneHasAllAnnotations ==
    [][ \A it \in Items :
          (itemStatus[it] # "ai_done" /\ itemStatus'[it] = "ai_done") =>
              \A a \in 1..Len(attributes) : product_annotations'[it][a] # <<>>
      ]_vars

\* the answer named only the second of two applicable attributes; the item
\* is ai_done with "Unknown" stored for the first
C37_Witness ==
    /\ itemStatus[<<1, 1>>] = "ai_done"
    /\ Len(attributes) = 2
    /\ attributes[1].name \notin DOMAIN annotations
    /\ attributes[2].name \in DOMAIN annotations
    /\ product_annotations[<<1, 1>>][1] = <<UnknownStr>>
    /\ product_annotations[<<1, 1>>][2] = <<normalized[attributes[2].name]>>

\* ------------------------------------- pause and resume of one AI batch
\* the products of the batch with an item that is neither ai_done nor
\* ai_failed
OpenProducts == {i \in batch_items : \E p \in assignments :
                    itemStatus[<<p, i>>] \notin Terminal \cup {"absent"}}

\* C38 as written: pause_ai_batch and resume_ai_batch leave every ai_done or
\* ai_failed item as it is, move the other items of the batch to pending_ai
\* and the assignments to pending, and change the status of no product.
C38_AsWritten ==
    [][ (pause_ai_batch \/ resume_ai_batch) =>
          /\ \A it \in BatchItems :
                itemStatus'[it] = IF itemStatus[it] \in Terminal THEN itemStatus[it]
                                  ELSE "pending_ai"
          /\ \A p \in assignments : asgStatus'[p] = "pending"
          /\ prodStatus' = prodStatus
      ]_vars

\* C38 amended: pause_ai_batch and resume_ai_batch leave every ai_done or
\* ai_failed item and every ai_done or ai_failed product as they are; they
\* move the other items of the batch to pending_ai, every assignment of the
\* batch to pending with progress 0, and every product of such an item
\* that is not ai_done or ai_failed to ai_in_progress.
C38_KeepsTerminal ==
    [][ (pause_ai_batch \/ resume_ai_batch) =>
          /\ \A it \in BatchItems :
                itemStatus'[it] = IF itemStatus[it] \in Terminal THEN itemStatus[it]
                                  ELSE "pending_ai"
          /\ \A p \in assignments : asgStatus'[p] = "pending" /\ asgProgress'[p] = 0
          /\ \A i \in batch_items :
                prodStatus'[i] = IF i \in OpenProducts /\ prodStatus[i] \notin Terminal
                                 THEN "ai_in_progress" ELSE prodStatus[i]
      ]_vars

\* pause_ai_batch has acted while the worker of the second item was calling
\* its provider: that item is pending_ai, its started_at kept, the first
\* item is still ai_done and the assignment is pending
C38_Witness ==
    /\ itemStatus[<<1, 1>>] = "ai_done"
    /\ itemStatus[<<1, 2>>] = "pending_ai"
    /\ started_at[<<1, 2>>]
    /\ wPc[<<1, 2>>] = "calling"
    /\ asgStatus[1] = "pending" /\ asgProgress[1] = 0

\* ------------------------------------------------ the run comes to an end
\* every item of the batch is ai_done or ai_failed, every assignment is
\* completed or failed, every product is ai_done or ai_failed
Settled ==
    /\ \A it \in BatchItems : itemStatus[it] \in Terminal
    /\ \A p \in assignments : asgStatus[p] \in {"completed", "failed"}
    /\ \A i \in batch_items : prodStatus[i] \in Terminal

\* C39: in a run with the pause flag never raised, every provider active
\* and every provider call returning, every batch body that starts ends,
\* and when it ends every item, assignment and product of the batch is
\* settled.
C39_RunSettles ==
    /\ \A t \in Threads : (pc[t] = "body") ~> (pc[t] = "unlock")
    /\ [][ \A t \in Threads : (pc[t] = "body" /\ pc'[t] = "unlock") => Settled' ]_vars

\* the body of a batch of two providers has returned: one item went
\* through three failed attempts and is ai_failed, the other is ai_done
C39_Witness ==
    /\ pc[1] = "unlock" /\ lastBody = "finalized"
    /\ Settled
    /\ Cardinality(assignments) = 2
    /\ \E it \in BatchItems : itemStatus[it] = "ai_failed" /\ Len(runs[it]) = 3
    /\ \E it \in BatchItems : itemStatus[it] = "ai_done"

====
